---- MODULE Spec2Model ----
(***************************************************************************)
(* State-machine model of the 1024 vault program (src/src/processor.rs,    *)
(* src/src/state.rs, src/src/utils.rs).                                    *)
(*                                                                         *)
(* Every instruction handler is an operator named after the Rust function  *)
(* it is translated from.  A handler returns the records it has written    *)
(* together with its ProgramResult: a record serialized into its account   *)
(* buffer before a later `?` returns Err stays written in the outcome.     *)
(* The actions, named after the VaultInstruction variants, apply a handler *)
(* to the stored records and note the invocation in the variable `last`.   *)
(*                                                                         *)
(* Integers: i64 and u64 are modelled with IntBits bits instead of 64, so  *)
(* that the boundaries of both ranges and the wrap-around of `as i64`      *)
(* are inside the explored values.                                         *)
(***************************************************************************)
EXTENDS Integers, Sequences, FiniteSets, TLC

VARIABLES
    config,           \* VaultConfig record
    users,            \* wallet -> UserAccount record (perp ledger)
    pmUsers,          \* wallet -> PredictionMarketUserAccount record
    spotUsers,        \* wallet -> SpotUserAccount record
    recurringAuth,    \* RecurringAuth record of the (payer, payee) pair
    tokens,           \* token-program balances of the custody accounts
    pmFeeConfig,      \* the prediction-market fee-policy record (external)
    overflow_checks,  \* build profile: TRUE = arithmetic overflow panics
    last              \* the last invocation: instruction, inputs, result

vars ==
    <<config, users, pmUsers, spotUsers, recurringAuth, tokens, pmFeeConfig, overflow_checks,
      last>>

ledgerVars == <<users, pmUsers, spotUsers, recurringAuth, tokens>>

-----------------------------------------------------------------------------
(* Integer widths                                                          *)

IntBits == 21

TwoPow == 2^IntBits

I64_MAX == 2^(IntBits - 1) - 1

I64_MIN == -(2^(IntBits - 1))

U64_MAX == 2^IntBits - 1

\* `x as i64` for a u64 x: two's-complement reinterpretation
as_i64(x) == IF x > I64_MAX THEN x - TwoPow ELSE x

\* wrapping of a mathematical result into the i64 range
wrap_i64(x) == ((x - I64_MIN) % TwoPow) + I64_MIN

\* wrapping of a mathematical result into the u64 range
wrap_u64(x) == x % TwoPow

Ok(v) == [ok |-> TRUE, v |-> v]

Err == [ok |-> FALSE, v |-> 0]

checked_add(a, b) == IF a + b > I64_MAX \/ a + b < I64_MIN THEN Err ELSE Ok(a + b)

checked_sub(a, b) == IF a - b > I64_MAX \/ a - b < I64_MIN THEN Err ELSE Ok(a - b)

checked_add_u64(a, b) == IF a + b > U64_MAX THEN Err ELSE Ok(a + b)

checked_sub_u64(a, b) == IF a - b < 0 THEN Err ELSE Ok(a - b)

\* the operators `+`, `-`, `+=`, `-=` on i64, x being the exact result: a
\* panic when the build has overflow checks, the wrapped value otherwise
unchecked(x) ==
    [panic |-> overflow_checks /\ (x > I64_MAX \/ x < I64_MIN), v |-> wrap_i64(x)]

\* the same operators on u64
unchecked_u64(x) == [panic |-> overflow_checks /\ (x > U64_MAX \/ x < 0), v |-> wrap_u64(x)]

-----------------------------------------------------------------------------
(* Identities                                                              *)

\* Pubkey::default(), the all-zero key
DefaultKey == 0

Keys == {0, 1, 2, 3}

InitAdmin == 1

InitLedgerProgram == 2

InitFundProgram == 3

\* number of entries of VaultConfig.authorized_callers
WHITELIST_SLOTS == 10

Slots == 1..WHITELIST_SLOTS

\* Pubkey::find_program_address(["ledger_config"], ledger_program): a key
\* derived from the program id, different from it and from the default key
ledger_config_pda(k) == k + 5

-----------------------------------------------------------------------------
(* VaultConfig                                                             *)

is_authorized_caller(cfg, caller) ==
    IF caller = cfg.ledger_program THEN TRUE
    ELSE IF cfg.fund_program # DefaultKey /\ caller = cfg.fund_program THEN TRUE
    ELSE \E i \in Slots :
            cfg.authorized_callers[i] # DefaultKey /\ caller = cfg.authorized_callers[i]

verify_cpi_caller(cfg, caller) ==
    IF ~is_authorized_caller(cfg, caller) THEN "UnauthorizedCaller"
    ELSE IF caller = ledger_config_pda(cfg.ledger_program) THEN "Ok"
    ELSE IF caller = cfg.ledger_program THEN "Ok"
    ELSE IF \E i \in Slots :
               cfg.authorized_callers[i] = caller /\ cfg.authorized_callers[i] # DefaultKey
         THEN "Ok"
    ELSE IF cfg.fund_program # DefaultKey /\ caller = cfg.fund_program THEN "Ok"
    ELSE "InvalidCallerPda"

\* the record process_initialize writes
process_initialize(admin, ledger_program, fund_program) ==
    [admin              |-> admin,
     ledger_program     |-> ledger_program,
     fund_program       |-> fund_program,
     authorized_callers |-> [i \in Slots |-> DefaultKey],
     total_deposits     |-> 0,
     is_paused          |-> FALSE]

\* index of the first slot holding k, 0 when there is none
first_slot(callers, k) ==
    IF \E i \in Slots : callers[i] = k
    THEN CHOOSE i \in Slots : callers[i] = k /\ \A j \in 1..(i - 1) : callers[j] # k
    ELSE 0

CfgOut(res, cfg) == [res |-> res, config |-> cfg]

\* variant: with no empty slot the last slot is overwritten
process_add_authorized_caller_overwrite(cfg, admin, is_signer, is_writable, caller) ==
    IF ~is_signer THEN CfgOut("MissingRequiredSignature", cfg)
    ELSE IF ~is_writable THEN CfgOut("InvalidAccountData", cfg)
    ELSE IF cfg.admin # admin THEN CfgOut("InvalidAdmin", cfg)
    ELSE IF \E i \in Slots : cfg.authorized_callers[i] = caller THEN CfgOut("Ok", cfg)
    ELSE IF first_slot(cfg.authorized_callers, DefaultKey) # 0
         THEN CfgOut("Ok", [cfg EXCEPT
                 !.authorized_callers[first_slot(cfg.authorized_callers, DefaultKey)] = caller])
    ELSE CfgOut("Ok", [cfg EXCEPT !.authorized_callers[WHITELIST_SLOTS] = caller])

\* variant: without the test for an identity that is already listed
process_add_authorized_caller_again(cfg, admin, is_signer, is_writable, caller) ==
    IF ~is_signer THEN CfgOut("MissingRequiredSignature", cfg)
    ELSE IF ~is_writable THEN CfgOut("InvalidAccountData", cfg)
    ELSE IF cfg.admin # admin THEN CfgOut("InvalidAdmin", cfg)
    ELSE IF first_slot(cfg.authorized_callers, DefaultKey) # 0
         THEN CfgOut("Ok", [cfg EXCEPT
                 !.authorized_callers[first_slot(cfg.authorized_callers, DefaultKey)] = caller])
    ELSE CfgOut("InvalidAccount", cfg)

process_add_authorized_caller(cfg, admin, is_signer, is_writable, caller) ==
    IF ~is_signer THEN CfgOut("MissingRequiredSignature", cfg)
    ELSE IF ~is_writable THEN CfgOut("InvalidAccountData", cfg)
    ELSE IF cfg.admin # admin THEN CfgOut("InvalidAdmin", cfg)
    ELSE IF \E i \in Slots : cfg.authorized_callers[i] = caller THEN CfgOut("Ok", cfg)
    ELSE IF first_slot(cfg.authorized_callers, DefaultKey) # 0
         THEN CfgOut("Ok", [cfg EXCEPT
                 !.authorized_callers[first_slot(cfg.authorized_callers, DefaultKey)] = caller])
    ELSE CfgOut("InvalidAccount", cfg)

process_remove_authorized_caller(cfg, admin, is_signer, is_writable, caller) ==
    IF ~is_signer THEN CfgOut("MissingRequiredSignature", cfg)
    ELSE IF ~is_writable THEN CfgOut("InvalidAccountData", cfg)
    ELSE IF cfg.admin # admin THEN CfgOut("InvalidAdmin", cfg)
    ELSE IF first_slot(cfg.authorized_callers, caller) # 0
         THEN CfgOut("Ok", [cfg EXCEPT
                 !.authorized_callers[first_slot(cfg.authorized_callers, caller)] = DefaultKey])
    ELSE CfgOut("Ok", cfg)

process_set_paused(cfg, admin, is_signer, is_writable, paused) ==
    IF ~is_signer THEN CfgOut("MissingRequiredSignature", cfg)
    ELSE IF ~is_writable THEN CfgOut("InvalidAccountData", cfg)
    ELSE IF cfg.admin # admin THEN CfgOut("InvalidAdmin", cfg)
    ELSE CfgOut("Ok", [cfg EXCEPT !.is_paused = paused])

\* process_update_admin without the comparison against config.admin
process_update_admin_any(cfg, current_admin, is_signer, is_writable, new_admin) ==
    IF ~is_signer THEN CfgOut("MissingRequiredSignature", cfg)
    ELSE IF ~is_writable THEN CfgOut("InvalidAccountData", cfg)
    ELSE CfgOut("Ok", [cfg EXCEPT !.admin = new_admin])

process_update_admin(cfg, current_admin, is_signer, is_writable, new_admin) ==
    IF ~is_signer THEN CfgOut("MissingRequiredSignature", cfg)
    ELSE IF ~is_writable THEN CfgOut("InvalidAccountData", cfg)
    ELSE IF cfg.admin # current_admin THEN CfgOut("InvalidAdmin", cfg)
    ELSE CfgOut("Ok", [cfg EXCEPT !.admin = new_admin])

process_set_fund_program(cfg, admin, is_signer, is_writable, fund_program) ==
    IF ~is_signer THEN CfgOut("MissingRequiredSignature", cfg)
    ELSE IF ~is_writable THEN CfgOut("InvalidAccountData", cfg)
    ELSE IF cfg.admin # admin THEN CfgOut("InvalidAdmin", cfg)
    ELSE CfgOut("Ok", [cfg EXCEPT !.fund_program = fund_program])

process_set_ledger_program(cfg, admin, is_signer, is_writable, ledger_program) ==
    IF ~is_signer THEN CfgOut("MissingRequiredSignature", cfg)
    ELSE IF ~is_writable THEN CfgOut("InvalidAccountData", cfg)
    ELSE IF cfg.admin # admin THEN CfgOut("InvalidAdmin", cfg)
    ELSE CfgOut("Ok", [cfg EXCEPT !.ledger_program = ledger_program])

-----------------------------------------------------------------------------
(* Records of the ledgers before any account exists                        *)

Wallets == {1, 2}

NoUser ==
    [init |-> FALSE, available_balance_e6 |-> 0, locked_margin_e6 |-> 0,
     total_deposited_e6 |-> 0, total_withdrawn_e6 |-> 0]

NoTokens == [user |-> 0, vault |-> 0, insurance |-> 0, fee_vault |-> 0]

\* a SpotUserAccount address whose data is empty; token_balances holds the
\* token_count slots in use, the slots after them are TokenBalance::default()
NoSpotUser == [init |-> FALSE, last_settled_sequence |-> 0, token_balances |-> <<>>]

\* a RecurringAuth address whose data is empty
NoAuth ==
    [init |-> FALSE, amount_e6 |-> 0, max_cycles |-> 0, current_cycles |-> 0,
     is_active |-> FALSE]

\* a PredictionMarketUserAccount address whose data is empty
NoPMUser ==
    [init |-> FALSE, prediction_market_locked_e6 |-> 0,
     prediction_market_pending_settlement_e6 |-> 0,
     prediction_market_total_deposited_e6 |-> 0,
     prediction_market_total_withdrawn_e6 |-> 0,
     prediction_market_realized_pnl_e6 |-> 0]

\* a fee-policy address whose data is shorter than MIN_SIZE
NoFeeConfig ==
    [init |-> FALSE, minting_fee_bps |-> 0, redemption_fee_bps |-> 0,
     trading_fee_taker_bps |-> 0, trading_fee_maker_bps |-> 0, settlement_fee_bps |-> 0,
     total_minting_fee |-> 0, total_redemption_fee |-> 0, total_trading_fee |-> 0]

InitLedgers ==
    /\ users = [w \in Wallets |-> NoUser]
    /\ pmUsers = [w \in Wallets |-> NoPMUser]
    /\ pmFeeConfig = NoFeeConfig
    /\ spotUsers = [w \in Wallets |-> NoSpotUser]
    /\ recurringAuth = NoAuth
    /\ tokens = NoTokens

\* the invocation noted by an action
Label(op, caller, is_signer, is_writable, arg, res) ==
    [op |-> op, caller |-> caller, signer |-> is_signer, writable |-> is_writable,
     arg |-> arg, res |-> res]

NoLabel == Label("Initialize", InitAdmin, TRUE, TRUE, [none |-> 0], "Ok")

\* account metas an invocation can carry: <<is_signer, is_writable>>
Metas == {<<TRUE, TRUE>>, <<FALSE, TRUE>>, <<TRUE, FALSE>>}

-----------------------------------------------------------------------------
(* Token program (external): token_compat::transfer                        *)

\* holders: the user's token account, the vault token account, the insurance
\* fund vault and the prediction-market fee vault
transfer(tok, from, to, amount) ==
    IF tok[from] < amount THEN [ok |-> FALSE, v |-> tok]
    ELSE IF from = to THEN [ok |-> TRUE, v |-> tok]
    ELSE [ok |-> TRUE,
          v |-> [tok EXCEPT ![from] = tok[from] - amount, ![to] = tok[to] + amount]]

-----------------------------------------------------------------------------
(* UserAccount handlers                                                    *)

\* result of a handler working on one UserAccount: the ProgramResult, the
\* record as left in the account buffer, the token balances, the config
UserOut(res, ua, tok, cfg) == [res |-> res, user |-> ua, tokens |-> tok, config |-> cfg]

process_initialize_user(ua, is_signer, pda_ok) ==
    IF ~is_signer THEN [res |-> "MissingRequiredSignature", user |-> ua]
    ELSE IF ~pda_ok THEN [res |-> "InvalidPda", user |-> ua]
    ELSE IF ua.init THEN [res |-> "AccountAlreadyInUse", user |-> ua]
    ELSE [res |-> "Ok", user |-> [NoUser EXCEPT !.init = TRUE]]

\* variant: the running total is written before the UserAccount is read
process_deposit_total_first(cfg, ua, tok, is_signer, is_writable, amount) ==
    IF ~is_signer THEN UserOut("MissingRequiredSignature", ua, tok, cfg)
    ELSE IF ~is_writable THEN UserOut("InvalidAccountData", ua, tok, cfg)
    ELSE IF amount = 0 THEN UserOut("InvalidAmount", ua, tok, cfg)
    ELSE IF cfg.is_paused THEN UserOut("VaultPaused", ua, tok, cfg)
    ELSE LET t == transfer(tok, "user", "vault", amount)
             c == checked_add_u64(cfg.total_deposits, amount)
             cfg2 == [cfg EXCEPT !.total_deposits = c.v] IN
    IF ~t.ok THEN UserOut("TokenError", ua, tok, cfg)
    ELSE IF ~c.ok THEN UserOut("Overflow", ua, t.v, cfg)
    ELSE IF ~ua.init THEN UserOut("BorshIoError", ua, t.v, cfg2)
    ELSE LET a == checked_add(ua.available_balance_e6, as_i64(amount))
             d == checked_add(ua.total_deposited_e6, as_i64(amount))
             ua2 == [ua EXCEPT !.available_balance_e6 = a.v, !.total_deposited_e6 = d.v]
         IN
    IF ~a.ok \/ ~d.ok THEN UserOut("Overflow", ua, t.v, cfg2)
    ELSE UserOut("Ok", ua2, t.v, cfg2)

process_deposit(cfg, ua, tok, is_signer, is_writable, amount) ==
    IF ~is_signer THEN UserOut("MissingRequiredSignature", ua, tok, cfg)
    ELSE IF ~is_writable THEN UserOut("InvalidAccountData", ua, tok, cfg)
    ELSE IF amount = 0 THEN UserOut("InvalidAmount", ua, tok, cfg)
    ELSE IF cfg.is_paused THEN UserOut("VaultPaused", ua, tok, cfg)
    ELSE LET t == transfer(tok, "user", "vault", amount) IN
    IF ~t.ok THEN UserOut("TokenError", ua, tok, cfg)
    ELSE IF ~ua.init THEN UserOut("BorshIoError", ua, t.v, cfg)
    ELSE LET a == checked_add(ua.available_balance_e6, as_i64(amount))
             d == checked_add(ua.total_deposited_e6, as_i64(amount))
             ua2 == [ua EXCEPT !.available_balance_e6 = a.v, !.total_deposited_e6 = d.v]
             c == checked_add_u64(cfg.total_deposits, amount)
         IN
    IF ~a.ok \/ ~d.ok THEN UserOut("Overflow", ua, t.v, cfg)
    ELSE IF ~c.ok THEN UserOut("Overflow", ua2, t.v, cfg)
    ELSE UserOut("Ok", ua2, t.v, [cfg EXCEPT !.total_deposits = c.v])

process_withdraw(cfg, ua, tok, is_signer, is_writable, amount) ==
    IF ~is_signer THEN UserOut("MissingRequiredSignature", ua, tok, cfg)
    ELSE IF ~is_writable THEN UserOut("InvalidAccountData", ua, tok, cfg)
    ELSE IF amount = 0 THEN UserOut("InvalidAmount", ua, tok, cfg)
    ELSE IF cfg.is_paused THEN UserOut("VaultPaused", ua, tok, cfg)
    ELSE IF ~ua.init THEN UserOut("BorshIoError", ua, tok, cfg)
    ELSE IF ua.available_balance_e6 < as_i64(amount)
         THEN UserOut("InsufficientBalance", ua, tok, cfg)
    ELSE LET a == checked_sub(ua.available_balance_e6, as_i64(amount))
             d == checked_add(ua.total_withdrawn_e6, as_i64(amount))
             ua2 == [ua EXCEPT !.available_balance_e6 = a.v, !.total_withdrawn_e6 = d.v]
             t == transfer(tok, "vault", "user", amount)
         IN
    IF ~a.ok \/ ~d.ok THEN UserOut("Overflow", ua, tok, cfg)
    ELSE IF ~t.ok THEN UserOut("TokenError", ua2, tok, cfg)
    ELSE UserOut("Ok", ua2, t.v, cfg)

process_lock_margin(cfg, ua, is_writable, caller, amount) ==
    IF ~is_writable THEN [res |-> "InvalidAccountData", user |-> ua]
    ELSE IF amount = 0 THEN [res |-> "InvalidAmount", user |-> ua]
    ELSE IF verify_cpi_caller(cfg, caller) # "Ok"
         THEN [res |-> verify_cpi_caller(cfg, caller), user |-> ua]
    ELSE IF ~ua.init THEN [res |-> "BorshIoError", user |-> ua]
    ELSE IF ua.available_balance_e6 < as_i64(amount)
         THEN [res |-> "InsufficientBalance", user |-> ua]
    ELSE LET a == checked_sub(ua.available_balance_e6, as_i64(amount))
             l == checked_add(ua.locked_margin_e6, as_i64(amount))
         IN
    IF ~a.ok \/ ~l.ok THEN [res |-> "Overflow", user |-> ua]
    ELSE [res |-> "Ok",
          user |-> [ua EXCEPT !.available_balance_e6 = a.v, !.locked_margin_e6 = l.v]]

process_release_margin(cfg, ua, is_writable, caller, amount) ==
    IF ~is_writable THEN [res |-> "InvalidAccountData", user |-> ua]
    ELSE IF amount = 0 THEN [res |-> "InvalidAmount", user |-> ua]
    ELSE IF verify_cpi_caller(cfg, caller) # "Ok"
         THEN [res |-> verify_cpi_caller(cfg, caller), user |-> ua]
    ELSE IF ~ua.init THEN [res |-> "BorshIoError", user |-> ua]
    ELSE IF ua.locked_margin_e6 < as_i64(amount)
         THEN [res |-> "InsufficientMargin", user |-> ua]
    ELSE LET l == checked_sub(ua.locked_margin_e6, as_i64(amount))
             a == checked_add(ua.available_balance_e6, as_i64(amount))
         IN
    IF ~a.ok \/ ~l.ok THEN [res |-> "Overflow", user |-> ua]
    ELSE [res |-> "Ok",
          user |-> [ua EXCEPT !.available_balance_e6 = a.v, !.locked_margin_e6 = l.v]]

\* residual locked margin below which ClosePositionSettle releases all of it
DUST_THRESHOLD == 1000000

\* locked margin and available balance after the auto-cleanup step
dust_cleanup(ua) ==
    IF ua.locked_margin_e6 > 0 /\ ua.locked_margin_e6 < DUST_THRESHOLD
    THEN LET a == checked_add(ua.available_balance_e6, ua.locked_margin_e6) IN
         [ok |-> a.ok, swept |-> ua.locked_margin_e6,
          v |-> [ua EXCEPT !.available_balance_e6 = a.v, !.locked_margin_e6 = 0]]
    ELSE [ok |-> TRUE, swept |-> 0, v |-> ua]

\* the outcome carries the residual reported by the auto-cleanup message
CloseOut(res, ua, swept) == [res |-> res, user |-> ua, swept |-> swept]

process_close_position_settle(cfg, ua, is_writable, caller, margin_to_release, realized_pnl, fee) ==
    IF ~is_writable THEN CloseOut("InvalidAccountData", ua, 0)
    ELSE IF verify_cpi_caller(cfg, caller) # "Ok"
         THEN CloseOut(verify_cpi_caller(cfg, caller), ua, 0)
    ELSE IF ~ua.init THEN CloseOut("BorshIoError", ua, 0)
    ELSE IF ua.locked_margin_e6 < as_i64(margin_to_release)
         THEN CloseOut("InsufficientMargin", ua, 0)
    ELSE LET l == checked_sub(ua.locked_margin_e6, as_i64(margin_to_release))
             a == checked_add(ua.available_balance_e6, as_i64(margin_to_release))
             u1 == [ua EXCEPT !.locked_margin_e6 = l.v, !.available_balance_e6 = a.v]
             c == dust_cleanup(u1)
             p == checked_add(c.v.available_balance_e6, realized_pnl)
             f == checked_sub(p.v, as_i64(fee))
         IN
    IF ~l.ok \/ ~a.ok THEN CloseOut("Overflow", ua, 0)
    ELSE IF ~c.ok THEN CloseOut("Overflow", ua, c.swept)
    ELSE IF ~p.ok THEN CloseOut("Overflow", ua, c.swept)
    ELSE IF p.v < as_i64(fee) THEN CloseOut("InsufficientBalance", ua, c.swept)
    ELSE IF ~f.ok THEN CloseOut("Overflow", ua, c.swept)
    ELSE CloseOut("Ok", [c.v EXCEPT !.available_balance_e6 = f.v], c.swept)

\* accounts_ok: the vault token account is the configured one and the config
\* account is the vault_config PDA
process_liquidate_position(cfg, ua, tok, is_writable, caller, accounts_ok, margin, user_remainder, liquidation_penalty) ==
    IF ~is_writable THEN UserOut("InvalidAccountData", ua, tok, cfg)
    ELSE IF verify_cpi_caller(cfg, caller) # "Ok"
         THEN UserOut(verify_cpi_caller(cfg, caller), ua, tok, cfg)
    ELSE IF ~ua.init THEN UserOut("BorshIoError", ua, tok, cfg)
    ELSE LET a == IF user_remainder > 0
                  THEN checked_add(ua.available_balance_e6, as_i64(user_remainder))
                  ELSE Ok(ua.available_balance_e6)
             ua2 == [ua EXCEPT !.locked_margin_e6 = 0, !.available_balance_e6 = a.v]
             t == transfer(tok, "vault", "insurance", liquidation_penalty)
         IN
    IF ~a.ok THEN UserOut("Overflow", ua, tok, cfg)
    ELSE IF liquidation_penalty = 0 THEN UserOut("Ok", ua2, tok, cfg)
    ELSE IF ~accounts_ok THEN UserOut("InvalidAccount", ua2, tok, cfg)
    ELSE IF ~t.ok THEN UserOut("TokenError", ua2, tok, cfg)
    ELSE UserOut("Ok", ua2, t.v, cfg)

-----------------------------------------------------------------------------
(* UserAccount instructions                                                *)

InitializeUser(w, m) ==
    LET r == process_initialize_user(users[w], m[1], TRUE) IN
    /\ users' = [users EXCEPT ![w] = r.user]
    /\ last' = Label("InitializeUser", w, m[1], m[2], [wallet |-> w], r.res)
    /\ UNCHANGED <<config, pmUsers, spotUsers, recurringAuth, tokens, overflow_checks, pmFeeConfig>>

Deposit(w, m, amount) ==
    LET r == process_deposit(config, users[w], tokens, m[1], m[2], amount) IN
    /\ users' = [users EXCEPT ![w] = r.user]
    /\ tokens' = r.tokens
    /\ config' = r.config
    /\ last' = Label("Deposit", w, m[1], m[2], [wallet |-> w, amount |-> amount], r.res)
    /\ UNCHANGED <<pmUsers, spotUsers, recurringAuth, overflow_checks, pmFeeConfig>>

Withdraw(w, m, amount) ==
    LET r == process_withdraw(config, users[w], tokens, m[1], m[2], amount) IN
    /\ users' = [users EXCEPT ![w] = r.user]
    /\ tokens' = r.tokens
    /\ last' = Label("Withdraw", w, m[1], m[2], [wallet |-> w, amount |-> amount], r.res)
    /\ UNCHANGED <<config, pmUsers, spotUsers, recurringAuth, overflow_checks, pmFeeConfig>>

LockMargin(c, w, is_writable, amount) ==
    LET r == process_lock_margin(config, users[w], is_writable, c, amount) IN
    /\ users' = [users EXCEPT ![w] = r.user]
    /\ last' = Label("LockMargin", c, FALSE, is_writable,
                     [wallet |-> w, amount |-> amount], r.res)
    /\ UNCHANGED <<config, pmUsers, spotUsers, recurringAuth, tokens, overflow_checks, pmFeeConfig>>

ReleaseMargin(c, w, is_writable, amount) ==
    LET r == process_release_margin(config, users[w], is_writable, c, amount) IN
    /\ users' = [users EXCEPT ![w] = r.user]
    /\ last' = Label("ReleaseMargin", c, FALSE, is_writable,
                     [wallet |-> w, amount |-> amount], r.res)
    /\ UNCHANGED <<config, pmUsers, spotUsers, recurringAuth, tokens, overflow_checks, pmFeeConfig>>

ClosePositionSettle(c, w, is_writable, margin_to_release, realized_pnl, fee) ==
    LET r == process_close_position_settle(config, users[w], is_writable, c,
                                           margin_to_release, realized_pnl, fee) IN
    /\ users' = [users EXCEPT ![w] = r.user]
    /\ last' = Label("ClosePositionSettle", c, FALSE, is_writable,
                     [wallet |-> w, margin_to_release |-> margin_to_release,
                      realized_pnl |-> realized_pnl, fee |-> fee, swept |-> r.swept], r.res)
    /\ UNCHANGED <<config, pmUsers, spotUsers, recurringAuth, tokens, overflow_checks, pmFeeConfig>>

LiquidatePosition(c, w, is_writable, accounts_ok, margin, user_remainder, liquidation_penalty) ==
    LET r == process_liquidate_position(config, users[w], tokens, is_writable, c, accounts_ok,
                                        margin, user_remainder, liquidation_penalty) IN
    /\ users' = [users EXCEPT ![w] = r.user]
    /\ tokens' = r.tokens
    /\ last' = Label("LiquidatePosition", c, FALSE, is_writable,
                     [wallet |-> w, accounts_ok |-> accounts_ok, margin |-> margin,
                      user_remainder |-> user_remainder,
                      liquidation_penalty |-> liquidation_penalty], r.res)
    /\ UNCHANGED <<config, pmUsers, spotUsers, recurringAuth, overflow_checks, pmFeeConfig>>

-----------------------------------------------------------------------------
(* Administrative instructions                                             *)

AddAuthorizedCaller(admin, m, caller) ==
    LET r == process_add_authorized_caller(config, admin, m[1], m[2], caller) IN
    /\ config' = r.config
    /\ last' = Label("AddAuthorizedCaller", admin, m[1], m[2], [key |-> caller], r.res)
    /\ UNCHANGED <<ledgerVars, overflow_checks, pmFeeConfig>>

RemoveAuthorizedCaller(admin, m, caller) ==
    LET r == process_remove_authorized_caller(config, admin, m[1], m[2], caller) IN
    /\ config' = r.config
    /\ last' = Label("RemoveAuthorizedCaller", admin, m[1], m[2], [key |-> caller], r.res)
    /\ UNCHANGED <<ledgerVars, overflow_checks, pmFeeConfig>>

SetPaused(admin, m, paused) ==
    LET r == process_set_paused(config, admin, m[1], m[2], paused) IN
    /\ config' = r.config
    /\ last' = Label("SetPaused", admin, m[1], m[2], [paused |-> paused], r.res)
    /\ UNCHANGED <<ledgerVars, overflow_checks, pmFeeConfig>>

UpdateAdmin(admin, m, new_admin) ==
    LET r == process_update_admin(config, admin, m[1], m[2], new_admin) IN
    /\ config' = r.config
    /\ last' = Label("UpdateAdmin", admin, m[1], m[2], [key |-> new_admin], r.res)
    /\ UNCHANGED <<ledgerVars, overflow_checks, pmFeeConfig>>

SetFundProgram(admin, m, fund_program) ==
    LET r == process_set_fund_program(config, admin, m[1], m[2], fund_program) IN
    /\ config' = r.config
    /\ last' = Label("SetFundProgram", admin, m[1], m[2], [key |-> fund_program], r.res)
    /\ UNCHANGED <<ledgerVars, overflow_checks, pmFeeConfig>>

SetLedgerProgram(admin, m, ledger_program) ==
    LET r == process_set_ledger_program(config, admin, m[1], m[2], ledger_program) IN
    /\ config' = r.config
    /\ last' = Label("SetLedgerProgram", admin, m[1], m[2], [key |-> ledger_program], r.res)
    /\ UNCHANGED <<ledgerVars, overflow_checks, pmFeeConfig>>

-----------------------------------------------------------------------------
(* SpecAdmin: the administrative instructions, invoked by any identity     *)

\* keys offered to the whitelist and program-id setters
AdminArgKeys == {0, 3}

InitAdmin0 ==
    /\ config = process_initialize(InitAdmin, InitLedgerProgram, InitFundProgram)
    /\ InitLedgers
    /\ overflow_checks = FALSE
    /\ last = NoLabel

NextAdmin ==
    \E c \in Keys, m \in Metas :
        \/ \E k \in AdminArgKeys : AddAuthorizedCaller(c, m, k)
        \/ \E k \in AdminArgKeys : RemoveAuthorizedCaller(c, m, k)
        \/ \E p \in BOOLEAN : SetPaused(c, m, p)
        \/ \E k \in Keys : UpdateAdmin(c, m, k)
        \/ \E k \in AdminArgKeys : SetFundProgram(c, m, k)
        \/ \E k \in AdminArgKeys : SetLedgerProgram(c, m, k)

SpecAdmin == InitAdmin0 /\ [][NextAdmin]_vars

AdminOps ==
    {"SetPaused", "UpdateAdmin", "AddAuthorizedCaller", "RemoveAuthorizedCaller",
     "SetFundProgram", "SetLedgerProgram"}

\* C3: an administrative instruction invoked by an identity other than the
\* current config.admin never succeeds and leaves the VaultConfig as it was,
\* and when that identity has signed and the config account is writable the
\* error is InvalidAdmin; invoked by the current admin it is accepted; a
\* successful UpdateAdmin(new_admin) makes new_admin the admin, so from then
\* on the previous admin is the one rejected and new_admin the one accepted.
C3_AdminOnly ==
    [][last'.op \in AdminOps =>
        /\ (last'.caller # config.admin =>
                /\ config' = config
                /\ last'.res # "Ok"
                /\ (last'.signer /\ last'.writable => last'.res = "InvalidAdmin"))
        /\ (last'.caller = config.admin /\ last'.signer /\ last'.writable =>
                last'.res = "Ok")
        /\ (last'.op = "UpdateAdmin" /\ last'.res = "Ok" =>
                config'.admin = last'.arg.key)]_vars

\* the admin has been rotated and the previous admin has just been refused
C3_Witness ==
    /\ config.admin # InitAdmin
    /\ last.op \in AdminOps
    /\ last.caller = InitAdmin
    /\ last.signer /\ last.writable
    /\ last.res = "InvalidAdmin"

-----------------------------------------------------------------------------
(* SpecLedger: the UserAccount instructions on one funded user             *)

\* the state after Initialize, InitializeUser and a deposit of `amount`
\* made from a token account holding `held`
FundedUser(amount, held) ==
    process_deposit(process_initialize(InitAdmin, InitLedgerProgram, InitFundProgram),
                    process_initialize_user(NoUser, TRUE, TRUE).user,
                    [NoTokens EXCEPT !.user = held], TRUE, TRUE, amount)

\* a u64 argument of 2^63 or more whose `as i64` value is -x
Neg(x) == TwoPow - x

\* the settlement caller
LedgerCallers == {InitLedgerProgram}

DepositAmounts == {0, 1000000}

LockAmounts == {0, 900000, 1000000, Neg(900000)}

ReleaseAmounts == {0, 900000}

CloseMargins == {0, 900000, 1000000, Neg(100000)}

ClosePnls == {-900000, 0, 1000000}

CloseFees == {0, 900000, Neg(1000000)}

LiquidationAmounts == {0, 1000000}

InitLedger ==
    /\ config = FundedUser(1000000, 1000000).config
    /\ users = [w \in Wallets |->
                  IF w = 1 THEN FundedUser(1000000, 1000000).user ELSE NoUser]
    /\ tokens = FundedUser(1000000, 1000000).tokens
    /\ pmUsers = [w \in Wallets |-> NoPMUser]
    /\ pmFeeConfig = NoFeeConfig
    /\ spotUsers = [w \in Wallets |-> NoSpotUser]
    /\ recurringAuth = NoAuth
    /\ overflow_checks = FALSE
    /\ last = NoLabel

NextLedger ==
    \/ \E a \in DepositAmounts : Deposit(1, <<TRUE, TRUE>>, a)
    \/ \E a \in DepositAmounts : Withdraw(1, <<TRUE, TRUE>>, a)
    \/ \E c \in LedgerCallers :
        \/ \E a \in LockAmounts : LockMargin(c, 1, TRUE, a)
        \/ \E a \in ReleaseAmounts : ReleaseMargin(c, 1, TRUE, a)
        \/ \E mr \in CloseMargins, pnl \in ClosePnls, fee \in CloseFees :
               ClosePositionSettle(c, 1, TRUE, mr, pnl, fee)
        \/ \E ok \in BOOLEAN, r \in LiquidationAmounts, pen \in LiquidationAmounts :
               LiquidatePosition(c, 1, TRUE, ok, 0, r, pen)

SpecLedger == InitLedger /\ [][NextLedger]_vars

\* available + locked of one UserAccount (its owner's prediction-market
\* pending settlement is not touched by the instructions of SpecLedger)
Total(ua) == ua.available_balance_e6 + ua.locked_margin_e6

\* what an invocation may add to the total: the amount deposited, minus the
\* amount withdrawn, plus the realized P&L, minus the fee; a liquidation is
\* counted as the loss of the stated margin less the remainder returned
LedgerDelta(l) ==
    IF l.res # "Ok" THEN 0
    ELSE CASE l.op = "Deposit" -> l.arg.amount
           [] l.op = "Withdraw" -> 0 - l.arg.amount
           [] l.op = "ClosePositionSettle" -> l.arg.realized_pnl - l.arg.fee
           [] l.op = "LiquidatePosition" -> l.arg.user_remainder - l.arg.margin
           [] OTHER -> 0

\* C1: conservation.  Every invocation changes available + locked of the
\* user it is applied to by exactly deposits - withdrawals + pnl - fees of
\* that invocation, and of no other user at all; so the equation holds over
\* every sequence of invocations.
C1_Conservation ==
    [][\A w \in Wallets :
          Total(users'[w]) - Total(users[w]) =
              IF w = last'.arg.wallet THEN LedgerDelta(last') ELSE 0]_vars

\* C9: dust cleanup.  A successful ClosePositionSettle on a user whose locked
\* margin is 900_000 leaves locked = 0 with the 900_000 in available; a
\* remainder (locked - margin_to_release) strictly between 0 and 1_000_000 is
\* swept into available, a remainder of 1_000_000 or more stays locked; the
\* locked margin after a successful ClosePositionSettle is 0 or >= 1_000_000.
C9_DustCleanup ==
    [][last'.op = "ClosePositionSettle" /\ last'.res = "Ok" =>
        LET pre == users[last'.arg.wallet]
            post == users'[last'.arg.wallet]
            rem == pre.locked_margin_e6 - last'.arg.margin_to_release
        IN
        /\ (pre.locked_margin_e6 = 900000 =>
                /\ post.locked_margin_e6 = 0
                /\ post.available_balance_e6 =
                       pre.available_balance_e6 + 900000
                           + last'.arg.realized_pnl - last'.arg.fee)
        /\ (rem > 0 /\ rem < 1000000 =>
                post.locked_margin_e6 = 0 /\ last'.arg.swept = rem)
        /\ (rem >= 1000000 => post.locked_margin_e6 = rem)
        /\ (post.locked_margin_e6 = 0 \/ post.locked_margin_e6 >= 1000000)]_vars

-----------------------------------------------------------------------------
(* SpotUserAccount (state.rs)                                              *)
(* A method works on a copy of the record; the handlers serialize the copy *)
(* only when the method returned Ok, so a method's outcome on Err is the   *)
(* record it was given.                                                    *)

MAX_TOKEN_SLOTS == 16

SpotUserAccount_new == [init |-> TRUE, last_settled_sequence |-> 0, token_balances |-> <<>>]

\* slot of the token (1-based), 0 for None
\* variant: the scan starts at the second slot
find_token_slot_from_second(acc, token_index) ==
    LET tb == acc.token_balances IN
    IF \E i \in 2..Len(tb) : tb[i].token_index = token_index
    THEN CHOOSE i \in 2..Len(tb) :
            /\ tb[i].token_index = token_index
            /\ \A j \in 2..(i - 1) : tb[j].token_index # token_index
    ELSE 0

find_token_slot(acc, token_index) ==
    LET tb == acc.token_balances IN
    IF \E i \in 1..Len(tb) : tb[i].token_index = token_index
    THEN CHOOSE i \in 1..Len(tb) :
            /\ tb[i].token_index = token_index
            /\ \A j \in 1..(i - 1) : tb[j].token_index # token_index
    ELSE 0

\* variant: a new slot is handed out without the capacity test
get_or_create_token_slot_unbounded(acc, token_index) ==
    IF find_token_slot(acc, token_index) # 0
    THEN [slot |-> find_token_slot(acc, token_index), acc |-> acc]
    ELSE [slot |-> Len(acc.token_balances) + 1,
          acc  |-> [acc EXCEPT !.token_balances =
                        Append(@, [token_index |-> token_index,
                                   available_e6 |-> 0, locked_e6 |-> 0])]]

get_or_create_token_slot(acc, token_index) ==
    IF find_token_slot(acc, token_index) # 0
    THEN [slot |-> find_token_slot(acc, token_index), acc |-> acc]
    ELSE IF Len(acc.token_balances) >= MAX_TOKEN_SLOTS THEN [slot |-> 0, acc |-> acc]
    ELSE [slot |-> Len(acc.token_balances) + 1,
          acc  |-> [acc EXCEPT !.token_balances =
                        Append(@, [token_index |-> token_index,
                                   available_e6 |-> 0, locked_e6 |-> 0])]]

SpotOut(res, acc) == [res |-> res, acc |-> acc]

deposit(acc, token_index, amount) ==
    IF amount <= 0 THEN SpotOut("Err", acc)
    ELSE LET g == get_or_create_token_slot(acc, token_index) IN
    IF g.slot = 0 THEN SpotOut("Err", acc)
    ELSE LET a == checked_add(g.acc.token_balances[g.slot].available_e6, amount) IN
    IF ~a.ok THEN SpotOut("Err", acc)
    ELSE SpotOut("Ok", [g.acc EXCEPT !.token_balances[g.slot].available_e6 = a.v])

withdraw(acc, token_index, amount) ==
    LET slot == find_token_slot(acc, token_index) IN
    IF amount <= 0 THEN SpotOut("Err", acc)
    ELSE IF slot = 0 THEN SpotOut("Err", acc)
    ELSE IF acc.token_balances[slot].available_e6 < amount THEN SpotOut("Err", acc)
    ELSE SpotOut("Ok", [acc EXCEPT !.token_balances[slot].available_e6 = @ - amount])

lock_balance(acc, token_index, amount) ==
    LET slot == find_token_slot(acc, token_index) IN
    IF amount <= 0 THEN SpotOut("Err", acc)
    ELSE IF slot = 0 THEN SpotOut("Err", acc)
    ELSE IF acc.token_balances[slot].available_e6 < amount THEN SpotOut("Err", acc)
    ELSE LET l == checked_add(acc.token_balances[slot].locked_e6, amount) IN
    IF ~l.ok THEN SpotOut("Err", acc)
    ELSE SpotOut("Ok", [acc EXCEPT !.token_balances[slot].available_e6 = @ - amount,
                                   !.token_balances[slot].locked_e6 = l.v])

unlock_balance(acc, token_index, amount) ==
    LET slot == find_token_slot(acc, token_index) IN
    IF amount <= 0 THEN SpotOut("Err", acc)
    ELSE IF slot = 0 THEN SpotOut("Err", acc)
    ELSE IF acc.token_balances[slot].locked_e6 < amount THEN SpotOut("Err", acc)
    ELSE LET a == checked_add(acc.token_balances[slot].available_e6, amount) IN
    IF ~a.ok THEN SpotOut("Err", acc)
    ELSE SpotOut("Ok", [acc EXCEPT !.token_balances[slot].locked_e6 = @ - amount,
                                   !.token_balances[slot].available_e6 = a.v])

\* the two branches of settle_trade: pay from the locked balance of one
\* token, receive the other token into available
settle_trade(acc, is_buy, base_token_index, quote_token_index, base_amount, quote_amount, sequence) ==
    LET pay_token  == IF is_buy THEN quote_token_index ELSE base_token_index
        pay_amount == IF is_buy THEN quote_amount ELSE base_amount
        get_token  == IF is_buy THEN base_token_index ELSE quote_token_index
        get_amount == IF is_buy THEN base_amount ELSE quote_amount
        pay_slot   == find_token_slot(acc, pay_token)
    IN
    IF sequence <= acc.last_settled_sequence THEN SpotOut("Err", acc)
    ELSE IF pay_slot = 0 THEN SpotOut("Err", acc)
    ELSE IF acc.token_balances[pay_slot].locked_e6 < pay_amount THEN SpotOut("Err", acc)
    ELSE LET l  == unchecked(acc.token_balances[pay_slot].locked_e6 - pay_amount)
             a1 == [acc EXCEPT !.token_balances[pay_slot].locked_e6 = l.v]
             g  == get_or_create_token_slot(a1, get_token)
         IN
    IF l.panic THEN SpotOut("Panic", acc)
    ELSE IF g.slot = 0 THEN SpotOut("Err", acc)
    ELSE LET a == checked_add(g.acc.token_balances[g.slot].available_e6, get_amount) IN
    IF ~a.ok THEN SpotOut("Err", acc)
    ELSE SpotOut("Ok", [g.acc EXCEPT !.token_balances[g.slot].available_e6 = a.v,
                                     !.last_settled_sequence = sequence])

\* the debit of settle_trade_v2 (both branches): from available when it
\* covers the cost, else available is emptied and the rest leaves locked
debit_available_first(acc, slot, cost) ==
    LET available == acc.token_balances[slot].available_e6
        locked    == acc.token_balances[slot].locked_e6
        all       == unchecked(available - cost)
        sum       == unchecked(available + locked)
        from_locked == unchecked(cost - available)
        rest      == unchecked(locked - from_locked.v)
    IN
    IF available >= cost
    THEN IF all.panic THEN SpotOut("Panic", acc)
         ELSE SpotOut("Ok", [acc EXCEPT !.token_balances[slot].available_e6 = all.v])
    ELSE IF sum.panic THEN SpotOut("Panic", acc)
    ELSE IF sum.v >= cost
    THEN IF from_locked.panic \/ rest.panic THEN SpotOut("Panic", acc)
         ELSE SpotOut("Ok", [acc EXCEPT !.token_balances[slot].available_e6 = 0,
                                        !.token_balances[slot].locked_e6 = rest.v])
    ELSE SpotOut("Err", acc)

settle_trade_v2(acc, is_buy, base_token_index, quote_token_index, base_amount, quote_amount, fee_e6, sequence) ==
    IF sequence <= acc.last_settled_sequence THEN SpotOut("Err", acc)
    ELSE IF is_buy
    THEN LET q == get_or_create_token_slot(acc, quote_token_index)
             total_cost == unchecked(quote_amount + fee_e6)
             d == debit_available_first(q.acc, q.slot, total_cost.v)
             b == get_or_create_token_slot(d.acc, base_token_index)
         IN
         IF q.slot = 0 THEN SpotOut("Err", acc)
         ELSE IF total_cost.panic THEN SpotOut("Panic", acc)
         ELSE IF d.res # "Ok" THEN SpotOut(d.res, acc)
         ELSE IF b.slot = 0 THEN SpotOut("Err", acc)
         ELSE LET a == checked_add(b.acc.token_balances[b.slot].available_e6, base_amount) IN
         IF ~a.ok THEN SpotOut("Err", acc)
         ELSE SpotOut("Ok", [b.acc EXCEPT !.token_balances[b.slot].available_e6 = a.v,
                                          !.last_settled_sequence = sequence])
    ELSE LET b == get_or_create_token_slot(acc, base_token_index)
             d == debit_available_first(b.acc, b.slot, base_amount)
             q == get_or_create_token_slot(d.acc, quote_token_index)
             net_quote == unchecked(quote_amount - fee_e6)
         IN
         IF b.slot = 0 THEN SpotOut("Err", acc)
         ELSE IF d.res # "Ok" THEN SpotOut(d.res, acc)
         ELSE IF q.slot = 0 THEN SpotOut("Err", acc)
         ELSE IF net_quote.panic THEN SpotOut("Panic", acc)
         ELSE IF net_quote.v < 0 THEN SpotOut("Err", acc)
         ELSE LET a == checked_add(q.acc.token_balances[q.slot].available_e6, net_quote.v) IN
         IF ~a.ok THEN SpotOut("Err", acc)
         ELSE SpotOut("Ok", [q.acc EXCEPT !.token_balances[q.slot].available_e6 = a.v,
                                          !.last_settled_sequence = sequence])

-----------------------------------------------------------------------------
(* SpotUserAccount handlers gated by verify_cpi_caller                     *)

\* a method error becomes the handler's VaultError, a panic aborts it
MapErr(res, err) == IF res = "Err" THEN err ELSE res

process_spot_lock_balance(cfg, acc, caller, token_index, amount) ==
    LET r == lock_balance(acc, token_index, as_i64(amount)) IN
    IF verify_cpi_caller(cfg, caller) # "Ok" THEN SpotOut(verify_cpi_caller(cfg, caller), acc)
    ELSE IF ~acc.init THEN SpotOut("BorshIoError", acc)
    ELSE SpotOut(MapErr(r.res, "InsufficientBalance"), r.acc)

process_spot_unlock_balance(cfg, acc, caller, token_index, amount) ==
    LET r == unlock_balance(acc, token_index, as_i64(amount)) IN
    IF verify_cpi_caller(cfg, caller) # "Ok" THEN SpotOut(verify_cpi_caller(cfg, caller), acc)
    ELSE IF ~acc.init THEN SpotOut("BorshIoError", acc)
    ELSE SpotOut(MapErr(r.res, "InsufficientBalance"), r.acc)

\* variant: the watermark itself is accepted as a sequence once more
process_spot_settle_trade_replay(cfg, acc, caller, is_buy, base_token_index, quote_token_index, base_amount, quote_amount, sequence) ==
    LET lower == IF acc.last_settled_sequence > 0 THEN acc.last_settled_sequence - 1 ELSE 0
        r == settle_trade([acc EXCEPT !.last_settled_sequence = lower], is_buy,
                          base_token_index, quote_token_index,
                          as_i64(base_amount), as_i64(quote_amount), sequence) IN
    IF verify_cpi_caller(cfg, caller) # "Ok" THEN SpotOut(verify_cpi_caller(cfg, caller), acc)
    ELSE IF ~acc.init THEN SpotOut("BorshIoError", acc)
    ELSE IF r.res # "Ok" THEN SpotOut(MapErr(r.res, "SettlementFailed"), acc)
    ELSE SpotOut("Ok", r.acc)

process_spot_settle_trade(cfg, acc, caller, is_buy, base_token_index, quote_token_index, base_amount, quote_amount, sequence) ==
    LET r == settle_trade(acc, is_buy, base_token_index, quote_token_index,
                          as_i64(base_amount), as_i64(quote_amount), sequence) IN
    IF verify_cpi_caller(cfg, caller) # "Ok" THEN SpotOut(verify_cpi_caller(cfg, caller), acc)
    ELSE IF ~acc.init THEN SpotOut("BorshIoError", acc)
    ELSE SpotOut(MapErr(r.res, "SettlementFailed"), r.acc)

SpotLockBalance(c, w, token_index, amount) ==
    LET r == process_spot_lock_balance(config, spotUsers[w], c, token_index, amount) IN
    /\ spotUsers' = [spotUsers EXCEPT ![w] = r.acc]
    /\ last' = Label("SpotLockBalance", c, FALSE, TRUE,
                     [wallet |-> w, token_index |-> token_index, amount |-> amount], r.res)
    /\ UNCHANGED <<config, users, pmUsers, recurringAuth, tokens, overflow_checks, pmFeeConfig>>

SpotUnlockBalance(c, w, token_index, amount) ==
    LET r == process_spot_unlock_balance(config, spotUsers[w], c, token_index, amount) IN
    /\ spotUsers' = [spotUsers EXCEPT ![w] = r.acc]
    /\ last' = Label("SpotUnlockBalance", c, FALSE, TRUE,
                     [wallet |-> w, token_index |-> token_index, amount |-> amount], r.res)
    /\ UNCHANGED <<config, users, pmUsers, recurringAuth, tokens, overflow_checks, pmFeeConfig>>

SpotSettleTrade(c, w, is_buy, base_token_index, quote_token_index, base_amount, quote_amount, sequence) ==
    LET r == process_spot_settle_trade(config, spotUsers[w], c, is_buy, base_token_index,
                                       quote_token_index, base_amount, quote_amount, sequence) IN
    /\ spotUsers' = [spotUsers EXCEPT ![w] = r.acc]
    /\ last' = Label("SpotSettleTrade", c, FALSE, TRUE,
                     [wallet |-> w, is_buy |-> is_buy, base |-> base_token_index,
                      quote |-> quote_token_index, base_amount |-> base_amount,
                      quote_amount |-> quote_amount, sequence |-> sequence], r.res)
    /\ UNCHANGED <<config, users, pmUsers, recurringAuth, tokens, overflow_checks, pmFeeConfig>>

-----------------------------------------------------------------------------
(* Specification of the gated instructions: every caller class against the *)
(* perp and spot instructions behind verify_cpi_caller, over a whitelist   *)
(* the admin edits.                                                        *)

\* a key the admin whitelists, other than the admin and the two programs
ListedKey == 4

GateCallers ==
    {DefaultKey, InitAdmin, InitLedgerProgram, InitFundProgram, ListedKey,
     ledger_config_pda(InitLedgerProgram)}

\* wallet 1 after SpotDeposit(token 0, 2) and SpotLockBalance(token 0, 1)
InitSpotUser ==
    lock_balance(deposit(SpotUserAccount_new, 0, 2).acc, 0, 1).acc

InitGate ==
    /\ config = process_add_authorized_caller(
                    process_initialize(InitAdmin, InitLedgerProgram, InitFundProgram),
                    InitAdmin, TRUE, TRUE, ListedKey).config
    /\ users = [w \in Wallets |-> IF w = 1 THEN FundedUser(2, 2).user ELSE NoUser]
    /\ pmUsers = [w \in Wallets |-> NoPMUser]
    /\ pmFeeConfig = NoFeeConfig
    /\ spotUsers = [w \in Wallets |-> IF w = 1 THEN InitSpotUser ELSE NoSpotUser]
    /\ recurringAuth = NoAuth
    /\ tokens = FundedUser(2, 2).tokens
    /\ overflow_checks = FALSE
    /\ last = NoLabel

NextGate ==
    \/ \E c \in GateCallers :
          \/ \E amount \in {0, 1} :
                \/ LockMargin(c, 1, TRUE, amount)
                \/ ReleaseMargin(c, 1, TRUE, amount)
                \/ SpotLockBalance(c, 1, 0, amount)
                \/ SpotUnlockBalance(c, 1, 0, amount)
          \/ ClosePositionSettle(c, 1, TRUE, 0, 0, 0)
          \/ LiquidatePosition(c, 1, TRUE, TRUE, 0, 0, 0)
          \/ SpotSettleTrade(c, 1, TRUE, 1, 0, 1, 1, 1)
    \/ AddAuthorizedCaller(InitAdmin, <<TRUE, TRUE>>, ListedKey)
    \/ RemoveAuthorizedCaller(InitAdmin, <<TRUE, TRUE>>, ListedKey)
    \/ \E k \in {DefaultKey, InitFundProgram} : SetFundProgram(InitAdmin, <<TRUE, TRUE>>, k)

SpecGate == InitGate /\ [][NextGate]_vars

GatedOps ==
    {"LockMargin", "ReleaseMargin", "ClosePositionSettle", "LiquidatePosition",
     "SpotLockBalance", "SpotUnlockBalance", "SpotSettleTrade"}

\* C2: a gated instruction invoked by a caller that is neither the ledger
\* program, nor the configured fund program, nor a non-default whitelist
\* entry fails with UnauthorizedCaller whatever its arguments, and invoked
\* by a caller of one of these three classes it does not fail with
\* UnauthorizedCaller.
C2_Gate ==
    [][last'.op \in GatedOps =>
        IF is_authorized_caller(config, last'.caller)
        THEN last'.res # "UnauthorizedCaller"
        ELSE last'.res = "UnauthorizedCaller"]_vars

-----------------------------------------------------------------------------
(* Relayer handlers (admin-signed)                                         *)
(* pda_ok: the account passed is the PDA derived from the wallet argument; *)
(* the record stored at that PDA then carries that wallet.                 *)

process_relayer_deposit(cfg, ua, admin, is_signer, is_writable, pda_ok, amount) ==
    IF ~is_signer THEN [res |-> "MissingRequiredSignature", user |-> ua]
    ELSE IF ~is_writable THEN [res |-> "InvalidAccountData", user |-> ua]
    ELSE IF cfg.admin # admin THEN [res |-> "InvalidRelayer", user |-> ua]
    ELSE IF amount = 0 THEN [res |-> "InvalidAmount", user |-> ua]
    ELSE IF ~pda_ok THEN [res |-> "InvalidPda", user |-> ua]
    ELSE IF ~ua.init
    THEN [res |-> "Ok",
          user |-> [NoUser EXCEPT !.init = TRUE, !.available_balance_e6 = as_i64(amount),
                                  !.total_deposited_e6 = as_i64(amount)]]
    ELSE LET a == checked_add(ua.available_balance_e6, as_i64(amount))
             d == checked_add(ua.total_deposited_e6, as_i64(amount))
         IN
    IF ~a.ok \/ ~d.ok THEN [res |-> "Overflow", user |-> ua]
    ELSE [res |-> "Ok",
          user |-> [ua EXCEPT !.available_balance_e6 = a.v, !.total_deposited_e6 = d.v]]

process_relayer_withdraw(cfg, ua, admin, is_signer, is_writable, pda_ok, amount) ==
    IF ~is_signer THEN [res |-> "MissingRequiredSignature", user |-> ua]
    ELSE IF ~is_writable THEN [res |-> "InvalidAccountData", user |-> ua]
    ELSE IF cfg.admin # admin THEN [res |-> "InvalidRelayer", user |-> ua]
    ELSE IF amount = 0 THEN [res |-> "InvalidAmount", user |-> ua]
    ELSE IF ~pda_ok THEN [res |-> "InvalidPda", user |-> ua]
    ELSE IF ~ua.init THEN [res |-> "NotInitialized", user |-> ua]
    ELSE IF ua.available_balance_e6 < as_i64(amount)
         THEN [res |-> "InsufficientBalance", user |-> ua]
    ELSE LET a == checked_sub(ua.available_balance_e6, as_i64(amount))
             d == checked_add(ua.total_withdrawn_e6, as_i64(amount))
         IN
    IF ~a.ok \/ ~d.ok THEN [res |-> "Overflow", user |-> ua]
    ELSE [res |-> "Ok",
          user |-> [ua EXCEPT !.available_balance_e6 = a.v, !.total_withdrawn_e6 = d.v]]

\* a missing account is created and serialized before the deposit is tried
process_relayer_spot_deposit(cfg, acc, admin, is_signer, pda_ok, token_index, amount) ==
    LET created == IF acc.init THEN acc ELSE SpotUserAccount_new
        r == deposit(created, token_index, as_i64(amount))
    IN
    IF ~is_signer THEN SpotOut("MissingRequiredSignature", acc)
    ELSE IF cfg.admin # admin THEN SpotOut("UnauthorizedAdmin", acc)
    ELSE IF ~pda_ok THEN SpotOut("InvalidPda", acc)
    ELSE SpotOut(MapErr(r.res, "DepositFailed"), r.acc)

\* wallet_ok: the record's wallet is the user_wallet argument
process_relayer_spot_withdraw(cfg, acc, admin, is_signer, wallet_ok, token_index, amount) ==
    LET r == withdraw(acc, token_index, as_i64(amount)) IN
    IF ~is_signer THEN SpotOut("MissingRequiredSignature", acc)
    ELSE IF cfg.admin # admin THEN SpotOut("UnauthorizedAdmin", acc)
    ELSE IF ~acc.init THEN SpotOut("BorshIoError", acc)
    ELSE IF ~wallet_ok THEN SpotOut("UnauthorizedUser", acc)
    ELSE SpotOut(MapErr(r.res, "InsufficientBalance"), r.acc)

RelayerDeposit(admin, m, w, pda_ok, amount) ==
    LET r == process_relayer_deposit(config, users[w], admin, m[1], m[2], pda_ok, amount) IN
    /\ users' = [users EXCEPT ![w] = r.user]
    /\ last' = Label("RelayerDeposit", admin, m[1], m[2],
                     [wallet |-> w, pda_ok |-> pda_ok, amount |-> amount], r.res)
    /\ UNCHANGED <<config, pmUsers, spotUsers, recurringAuth, tokens, overflow_checks, pmFeeConfig>>

RelayerWithdraw(admin, m, w, pda_ok, amount) ==
    LET r == process_relayer_withdraw(config, users[w], admin, m[1], m[2], pda_ok, amount) IN
    /\ users' = [users EXCEPT ![w] = r.user]
    /\ last' = Label("RelayerWithdraw", admin, m[1], m[2],
                     [wallet |-> w, pda_ok |-> pda_ok, amount |-> amount], r.res)
    /\ UNCHANGED <<config, pmUsers, spotUsers, recurringAuth, tokens, overflow_checks, pmFeeConfig>>

RelayerSpotDeposit(admin, m, w, pda_ok, token_index, amount) ==
    LET r == process_relayer_spot_deposit(config, spotUsers[w], admin, m[1], pda_ok,
                                          token_index, amount) IN
    /\ spotUsers' = [spotUsers EXCEPT ![w] = r.acc]
    /\ last' = Label("RelayerSpotDeposit", admin, m[1], m[2],
                     [wallet |-> w, pda_ok |-> pda_ok, token_index |-> token_index,
                      amount |-> amount], r.res)
    /\ UNCHANGED <<config, users, pmUsers, recurringAuth, tokens, overflow_checks, pmFeeConfig>>

RelayerSpotWithdraw(admin, m, w, wallet_ok, token_index, amount) ==
    LET r == process_relayer_spot_withdraw(config, spotUsers[w], admin, m[1], wallet_ok,
                                           token_index, amount) IN
    /\ spotUsers' = [spotUsers EXCEPT ![w] = r.acc]
    /\ last' = Label("RelayerSpotWithdraw", admin, m[1], m[2],
                     [wallet |-> w, wallet_ok |-> wallet_ok, token_index |-> token_index,
                      amount |-> amount], r.res)
    /\ UNCHANGED <<config, users, pmUsers, recurringAuth, tokens, overflow_checks, pmFeeConfig>>

\* outcome of a handler working on two records: the ProgramResult and both
\* records as left in their account buffers
PairOut(res, a, b) == [res |-> res, a |-> a, b |-> b]

\* variant: both records are read before either is written
process_relayer_spot_settle_trade_preloaded(cfg, maker, taker, admin, is_signer, pdas_ok, base_token_index, quote_token_index, base_amount_e6, quote_amount_e6, maker_fee_e6, taker_fee_e6, taker_is_buy, sequence, same_account) ==
    LET m  == settle_trade_v2(maker, ~taker_is_buy, base_token_index, quote_token_index,
                              base_amount_e6, quote_amount_e6, maker_fee_e6, sequence)
        t  == settle_trade_v2(taker, taker_is_buy, base_token_index, quote_token_index,
                              base_amount_e6, quote_amount_e6, taker_fee_e6, sequence)
    IN
    IF ~is_signer THEN PairOut("MissingRequiredSignature", maker, taker)
    ELSE IF cfg.admin # admin THEN PairOut("UnauthorizedAdmin", maker, taker)
    ELSE IF ~pdas_ok THEN PairOut("InvalidPda", maker, taker)
    ELSE IF ~maker.init THEN PairOut("BorshIoError", maker, taker)
    ELSE IF m.res # "Ok" THEN PairOut(MapErr(m.res, "SettlementFailed"), maker, taker)
    ELSE IF ~taker.init THEN PairOut("BorshIoError", m.acc, taker)
    ELSE IF t.res # "Ok" THEN PairOut(MapErr(t.res, "SettlementFailed"), m.acc, taker)
    ELSE PairOut("Ok", m.acc, t.acc)

\* maker and taker are the records at the two PDAs; with maker_wallet =
\* taker_wallet both are the same account and the taker record is read
\* from the buffer the maker record has just been written to
process_relayer_spot_settle_trade(cfg, maker, taker, admin, is_signer, pdas_ok, base_token_index, quote_token_index, base_amount_e6, quote_amount_e6, maker_fee_e6, taker_fee_e6, taker_is_buy, sequence, same_account) ==
    LET m  == settle_trade_v2(maker, ~taker_is_buy, base_token_index, quote_token_index,
                              base_amount_e6, quote_amount_e6, maker_fee_e6, sequence)
        t0 == IF same_account THEN m.acc ELSE taker
        t  == settle_trade_v2(t0, taker_is_buy, base_token_index, quote_token_index,
                              base_amount_e6, quote_amount_e6, taker_fee_e6, sequence)
    IN
    IF ~is_signer THEN PairOut("MissingRequiredSignature", maker, taker)
    ELSE IF cfg.admin # admin THEN PairOut("UnauthorizedAdmin", maker, taker)
    ELSE IF ~pdas_ok THEN PairOut("InvalidPda", maker, taker)
    ELSE IF ~maker.init THEN PairOut("BorshIoError", maker, taker)
    ELSE IF m.res # "Ok" THEN PairOut(MapErr(m.res, "SettlementFailed"), maker, taker)
    ELSE IF ~t0.init THEN PairOut("BorshIoError", m.acc, t0)
    ELSE IF t.res # "Ok" THEN PairOut(MapErr(t.res, "SettlementFailed"), m.acc, t0)
    ELSE PairOut("Ok", m.acc, t.acc)

\* a: the UserAccount, b: the SpotUserAccount
process_spot_allocate_from_vault(cfg, ua, acc, admin, is_signer, pdas_ok, amount) ==
    LET a == unchecked(ua.available_balance_e6 - as_i64(amount))
        ua2 == [ua EXCEPT !.available_balance_e6 = a.v]
        created == IF acc.init THEN acc ELSE SpotUserAccount_new
        r == deposit(created, 0, as_i64(amount))
    IN
    IF ~is_signer THEN PairOut("MissingRequiredSignature", ua, acc)
    ELSE IF cfg.admin # admin THEN PairOut("UnauthorizedAdmin", ua, acc)
    ELSE IF ~pdas_ok THEN PairOut("InvalidPda", ua, acc)
    ELSE IF ~ua.init THEN PairOut("BorshIoError", ua, acc)
    ELSE IF ua.available_balance_e6 < as_i64(amount)
         THEN PairOut("InsufficientBalance", ua, acc)
    ELSE IF a.panic THEN PairOut("Panic", ua, acc)
    ELSE PairOut(MapErr(r.res, "DepositFailed"), ua2, r.acc)

\* a: the UserAccount, b: the SpotUserAccount
process_spot_release_to_vault(cfg, acc, ua, admin, is_signer, pdas_ok, amount) ==
    LET r == withdraw(acc, 0, as_i64(amount))
        a == unchecked(ua.available_balance_e6 + as_i64(amount))
    IN
    IF ~is_signer THEN PairOut("MissingRequiredSignature", ua, acc)
    ELSE IF cfg.admin # admin THEN PairOut("UnauthorizedAdmin", ua, acc)
    ELSE IF ~pdas_ok THEN PairOut("InvalidPda", ua, acc)
    ELSE IF ~acc.init THEN PairOut("BorshIoError", ua, acc)
    ELSE IF r.res # "Ok" THEN PairOut(MapErr(r.res, "InsufficientBalance"), ua, acc)
    ELSE IF ~ua.init THEN PairOut("BorshIoError", ua, r.acc)
    ELSE IF a.panic THEN PairOut("Panic", ua, r.acc)
    ELSE PairOut("Ok", [ua EXCEPT !.available_balance_e6 = a.v], r.acc)

\* variant: any authorized CPI caller is taken for the admin
process_relayer_internal_transfer_listed(cfg, from, to, admin, is_signer, pdas_ok, amount, fee, same_account) ==
    LET to2 == [to EXCEPT !.available_balance_e6 = @ + as_i64(amount)]
        from2 == [from EXCEPT !.available_balance_e6 = @ - as_i64(amount + fee)]
    IN
    IF ~is_signer THEN PairOut("MissingSignature", from, to)
    ELSE IF cfg.admin # admin /\ ~is_authorized_caller(cfg, admin)
         THEN PairOut("UnauthorizedAdmin", from, to)
    ELSE IF ~pdas_ok \/ same_account THEN PairOut("InvalidUserAccount", from, to)
    ELSE IF ~from.init \/ ~to.init THEN PairOut("BorshIoError", from, to)
    ELSE IF from.available_balance_e6 < as_i64(amount + fee)
         THEN PairOut("InsufficientBalance", from, to)
    ELSE PairOut("Ok", from2, to2)

\* a: the sender's UserAccount, b: the receiver's; with from_wallet =
\* to_wallet the receiver record is read from the sender's written buffer
process_relayer_internal_transfer(cfg, from, to, admin, is_signer, pdas_ok, amount, fee, same_account) ==
    LET sum == unchecked_u64(amount + fee)
        total_deduction == as_i64(sum.v)
        f == unchecked(from.available_balance_e6 - total_deduction)
        from2 == [from EXCEPT !.available_balance_e6 = f.v]
        to0 == IF same_account THEN from2 ELSE to
        t == unchecked(to0.available_balance_e6 + as_i64(amount))
    IN
    IF ~is_signer THEN PairOut("MissingSignature", from, to)
    ELSE IF cfg.admin # admin THEN PairOut("UnauthorizedAdmin", from, to)
    ELSE IF ~pdas_ok THEN PairOut("InvalidUserAccount", from, to)
    ELSE IF ~from.init THEN PairOut("BorshIoError", from, to)
    ELSE IF sum.panic THEN PairOut("Panic", from, to)
    ELSE IF from.available_balance_e6 < total_deduction
         THEN PairOut("InsufficientBalance", from, to)
    ELSE IF f.panic THEN PairOut("Panic", from, to)
    ELSE IF ~to0.init THEN PairOut("BorshIoError", from2, to0)
    ELSE IF t.panic THEN PairOut("Panic", from2, to0)
    ELSE PairOut("Ok", from2, [to0 EXCEPT !.available_balance_e6 = t.v])

RelayerSpotSettleTrade(admin, m, mw, tw, pdas_ok, base_amount_e6, quote_amount_e6, maker_fee_e6, taker_fee_e6, taker_is_buy, sequence) ==
    LET r == process_relayer_spot_settle_trade(config, spotUsers[mw], spotUsers[tw], admin,
                 m[1], pdas_ok, 1, 0, base_amount_e6, quote_amount_e6, maker_fee_e6,
                 taker_fee_e6, taker_is_buy, sequence, mw = tw) IN
    /\ spotUsers' = [[spotUsers EXCEPT ![mw] = r.a] EXCEPT ![tw] = r.b]
    /\ last' = Label("RelayerSpotSettleTrade", admin, m[1], m[2],
                     [maker |-> mw, taker |-> tw, pdas_ok |-> pdas_ok,
                      base_amount |-> base_amount_e6, quote_amount |-> quote_amount_e6,
                      maker_fee |-> maker_fee_e6, taker_fee |-> taker_fee_e6,
                      taker_is_buy |-> taker_is_buy, sequence |-> sequence], r.res)
    /\ UNCHANGED <<config, users, pmUsers, recurringAuth, tokens, overflow_checks, pmFeeConfig>>

SpotAllocateFromVault(admin, m, w, pdas_ok, amount) ==
    LET r == process_spot_allocate_from_vault(config, users[w], spotUsers[w], admin, m[1],
                                              pdas_ok, amount) IN
    /\ users' = [users EXCEPT ![w] = r.a]
    /\ spotUsers' = [spotUsers EXCEPT ![w] = r.b]
    /\ last' = Label("SpotAllocateFromVault", admin, m[1], m[2],
                     [wallet |-> w, pdas_ok |-> pdas_ok, amount |-> amount], r.res)
    /\ UNCHANGED <<config, pmUsers, recurringAuth, tokens, overflow_checks, pmFeeConfig>>

SpotReleaseToVault(admin, m, w, pdas_ok, amount) ==
    LET r == process_spot_release_to_vault(config, spotUsers[w], users[w], admin, m[1],
                                           pdas_ok, amount) IN
    /\ users' = [users EXCEPT ![w] = r.a]
    /\ spotUsers' = [spotUsers EXCEPT ![w] = r.b]
    /\ last' = Label("SpotReleaseToVault", admin, m[1], m[2],
                     [wallet |-> w, pdas_ok |-> pdas_ok, amount |-> amount], r.res)
    /\ UNCHANGED <<config, pmUsers, recurringAuth, tokens, overflow_checks, pmFeeConfig>>

RelayerInternalTransfer(admin, m, fw, tw, pdas_ok, amount, fee) ==
    LET r == process_relayer_internal_transfer(config, users[fw], users[tw], admin, m[1],
                                               pdas_ok, amount, fee, fw = tw) IN
    /\ users' = [[users EXCEPT ![fw] = r.a] EXCEPT ![tw] = r.b]
    /\ last' = Label("RelayerInternalTransfer", admin, m[1], m[2],
                     [from |-> fw, to |-> tw, pdas_ok |-> pdas_ok, amount |-> amount,
                      fee |-> fee], r.res)
    /\ UNCHANGED <<config, pmUsers, spotUsers, recurringAuth, tokens, overflow_checks, pmFeeConfig>>

-----------------------------------------------------------------------------
(* Specification of the relayer instructions: the admin, the ledger        *)
(* program and a whitelisted key invoke each of them, signed or not, while *)
(* the admin key rotates between the first admin and the whitelisted key.  *)

\* an amount two of which no longer fit an i64
Big == 2^(IntBits - 2)

RelayerCallers == {InitAdmin, InitLedgerProgram, ListedKey}

InitRelayer ==
    /\ config = process_add_authorized_caller(
                    process_initialize(InitAdmin, InitLedgerProgram, InitFundProgram),
                    InitAdmin, TRUE, TRUE, ListedKey).config
    /\ users = [w \in Wallets |->
                  IF w = 2 THEN process_initialize_user(NoUser, TRUE, TRUE).user ELSE NoUser]
    /\ pmUsers = [w \in Wallets |-> NoPMUser]
    /\ pmFeeConfig = NoFeeConfig
    /\ spotUsers = [w \in Wallets |-> NoSpotUser]
    /\ recurringAuth = NoAuth
    /\ tokens = NoTokens
    /\ overflow_checks = FALSE
    /\ last = NoLabel

NextRelayer ==
    \/ \E c \in RelayerCallers, m \in {<<TRUE, TRUE>>, <<FALSE, TRUE>>} :
          \/ \E amount \in {Big, Neg(Big)} : RelayerDeposit(c, m, 1, TRUE, amount)
          \/ \E amount \in {Big, Neg(Big)} : RelayerWithdraw(c, m, 1, TRUE, amount)
          \/ RelayerSpotDeposit(c, m, 2, TRUE, 1, Big)
          \/ RelayerSpotWithdraw(c, m, 2, TRUE, 1, Big)
          \/ RelayerSpotSettleTrade(c, m, 1, 2, TRUE, Big, Big, 0, 0, FALSE, 1)
          \/ SpotAllocateFromVault(c, m, 1, TRUE, Big)
          \/ SpotReleaseToVault(c, m, 1, TRUE, Big)
          \/ RelayerInternalTransfer(c, m, 1, 2, TRUE, Big, 0)
    \/ \E c \in {InitAdmin, ListedKey}, k \in {InitAdmin, ListedKey} :
          UpdateAdmin(c, <<TRUE, TRUE>>, k)

SpecRelayer == InitRelayer /\ [][NextRelayer]_vars

RelayerOps ==
    {"RelayerDeposit", "RelayerWithdraw", "RelayerSpotDeposit", "RelayerSpotWithdraw",
     "RelayerSpotSettleTrade", "SpotAllocateFromVault", "SpotReleaseToVault",
     "RelayerInternalTransfer"}

-----------------------------------------------------------------------------
(* Specification of the spot settlements: the ledger program settles one   *)
(* account, the admin settles maker and taker pairs, with fresh and stale  *)
(* sequence numbers.                                                       *)

MaxSeq == 2

\* token 0 and token 1 deposited, `locked` of each moved to locked
SpotFunded(amount, locked) ==
    LET d == deposit(deposit(SpotUserAccount_new, 0, amount).acc, 1, amount).acc IN
    IF locked = 0 THEN d ELSE lock_balance(lock_balance(d, 0, locked).acc, 1, locked).acc

InitSpot ==
    /\ config = process_initialize(InitAdmin, InitLedgerProgram, InitFundProgram)
    /\ users = [w \in Wallets |-> NoUser]
    /\ pmUsers = [w \in Wallets |-> NoPMUser]
    /\ pmFeeConfig = NoFeeConfig
    /\ spotUsers = [w \in Wallets |-> IF w = 1 THEN SpotFunded(2, 1) ELSE SpotFunded(1, 0)]
    /\ recurringAuth = NoAuth
    /\ tokens = NoTokens
    /\ overflow_checks = FALSE
    /\ last = NoLabel

NextSpot ==
    \/ \E is_buy \in BOOLEAN, quote_amount \in {1, Neg(1)}, sequence \in 0..MaxSeq :
          SpotSettleTrade(InitLedgerProgram, 1, is_buy, 1, 0, 1, quote_amount, sequence)
    \/ \E p \in {<<1, 2>>, <<2, 1>>, <<1, 1>>}, taker_fee \in {0, 2, I64_MAX},
          taker_is_buy \in BOOLEAN, sequence \in 1..MaxSeq :
          RelayerSpotSettleTrade(InitAdmin, <<TRUE, TRUE>>, p[1], p[2], TRUE, 1, 1, 0,
                                 taker_fee, taker_is_buy, sequence)

SpecSpot == InitSpot /\ [][NextSpot]_vars

\* the accounts a settlement presents its sequence to
Settled(l) ==
    IF l.op = "SpotSettleTrade" THEN {l.arg.wallet}
    ELSE IF l.op = "RelayerSpotSettleTrade" THEN {l.arg.maker, l.arg.taker}
    ELSE {}

\* C5: a settlement whose sequence is not above the watermark of an account
\* it is presented to fails and leaves that account as it was; a successful
\* settlement leaves the presented sequence as the watermark; a watermark
\* never decreases and changes only to a presented sequence above it.
C5_Sequence ==
    [][/\ \A w \in Settled(last') :
            /\ last'.arg.sequence <= spotUsers[w].last_settled_sequence =>
                    last'.res # "Ok" /\ spotUsers'[w] = spotUsers[w]
            /\ last'.res = "Ok" =>
                    spotUsers'[w].last_settled_sequence = last'.arg.sequence
       /\ \A w \in Wallets :
            \/ spotUsers'[w].last_settled_sequence = spotUsers[w].last_settled_sequence
            \/ /\ w \in Settled(last')
               /\ spotUsers'[w].last_settled_sequence = last'.arg.sequence
               /\ last'.arg.sequence > spotUsers[w].last_settled_sequence]_vars

\* the sequence an account has settled is presented to it once more by the
\* ledger program and turned away
C5_Witness ==
    /\ last.op = "SpotSettleTrade" /\ last.res = "SettlementFailed"
    /\ last.arg.sequence > 0
    /\ spotUsers[last.arg.wallet].last_settled_sequence = last.arg.sequence

\* C6: RelayerSpotSettleTrade applies both sides or none: when it fails,
\* neither the maker nor the taker account has changed.
C6_AllOrNothing ==
    [][last'.op = "RelayerSpotSettleTrade" /\ last'.res # "Ok" =>
        spotUsers' = spotUsers]_vars

-----------------------------------------------------------------------------
(* RecurringAuth (state.rs) and its handlers                               *)

\* variant: the creation is counted as the first cycle
RecurringAuth_new_counted(amount_e6, max_cycles) ==
    [init |-> TRUE, amount_e6 |-> amount_e6, max_cycles |-> max_cycles,
     current_cycles |-> 1, is_active |-> TRUE]

RecurringAuth_new(amount_e6, max_cycles) ==
    [init |-> TRUE, amount_e6 |-> amount_e6, max_cycles |-> max_cycles,
     current_cycles |-> 0, is_active |-> TRUE]

\* variant: the authorization ends one execution late
execute_late(auth) ==
    IF ~auth.is_active THEN [res |-> "Err", auth |-> auth]
    ELSE [res |-> "Ok",
          auth |-> [auth EXCEPT !.current_cycles = @ + 1,
                                !.is_active = ~(auth.max_cycles > 0
                                                /\ auth.current_cycles + 1 > auth.max_cycles)]]

\* current_cycles is a u32; the executions explored stay far below its range
execute(auth) ==
    IF ~auth.is_active THEN [res |-> "Err", auth |-> auth]
    ELSE [res |-> "Ok",
          auth |-> [auth EXCEPT !.current_cycles = @ + 1,
                                !.is_active = ~(auth.max_cycles > 0
                                                /\ auth.current_cycles + 1 >= auth.max_cycles)]]

\* variant: cancelling clears the cycle counter
cancel_reset(auth) == [auth EXCEPT !.is_active = FALSE, !.current_cycles = 0]

\* variant: cancelling an inactive authorization switches it on again
cancel_toggle(auth) == [auth EXCEPT !.is_active = ~@]

cancel(auth) == [auth EXCEPT !.is_active = FALSE]

\* outcome of a recurring-payment handler: the ProgramResult, the payer and
\* payee UserAccounts and the RecurringAuth as left in their buffers
AuthOut(res, payer, payee, auth) == [res |-> res, a |-> payer, b |-> payee, auth |-> auth]

\* the payer record is written before create_account, which the system
\* program refuses for an address that already holds an account
process_init_recurring_auth(cfg, payer, auth, admin, is_signer, payer_pda_ok, auth_pda_ok, amount, max_cycles, registration_fee) ==
    LET a == unchecked(payer.available_balance_e6 - as_i64(registration_fee))
        payer2 == [payer EXCEPT !.available_balance_e6 = a.v]
    IN
    IF ~is_signer THEN AuthOut("MissingSignature", payer, payer, auth)
    ELSE IF cfg.admin # admin THEN AuthOut("UnauthorizedAdmin", payer, payer, auth)
    ELSE IF ~payer_pda_ok THEN AuthOut("InvalidUserAccount", payer, payer, auth)
    ELSE IF ~auth_pda_ok THEN AuthOut("InvalidPda", payer, payer, auth)
    ELSE IF ~payer.init THEN AuthOut("BorshIoError", payer, payer, auth)
    ELSE IF payer.available_balance_e6 < as_i64(registration_fee)
         THEN AuthOut("InsufficientBalance", payer, payer, auth)
    ELSE IF a.panic THEN AuthOut("Panic", payer, payer, auth)
    ELSE IF auth.init THEN AuthOut("AccountAlreadyInUse", payer2, payer2, auth)
    ELSE AuthOut("Ok", payer2, payer2, RecurringAuth_new(amount, max_cycles))

\* variant: the presented cycle index is not compared with current_cycles
process_execute_recurring_payment_any_cycle(cfg, payer, payee, auth, admin, is_signer, users_pda_ok, auth_pda_ok, amount, fee, cycle_count, same_account) ==
    LET sum == unchecked_u64(amount + fee)
        total_deduction == as_i64(sum.v)
        p == unchecked(payer.available_balance_e6 - total_deduction)
        payer2 == [payer EXCEPT !.available_balance_e6 = p.v]
        payee0 == IF same_account THEN payer2 ELSE payee
        q == unchecked(payee0.available_balance_e6 + as_i64(amount))
        payee2 == [payee0 EXCEPT !.available_balance_e6 = q.v]
        e == execute(auth)
    IN
    IF ~is_signer THEN AuthOut("MissingSignature", payer, payee, auth)
    ELSE IF cfg.admin # admin THEN AuthOut("UnauthorizedAdmin", payer, payee, auth)
    ELSE IF ~users_pda_ok THEN AuthOut("InvalidUserAccount", payer, payee, auth)
    ELSE IF ~auth_pda_ok THEN AuthOut("InvalidPda", payer, payee, auth)
    ELSE IF ~auth.init THEN AuthOut("BorshIoError", payer, payee, auth)
    ELSE IF ~auth.is_active THEN AuthOut("RecurringAuthNotActive", payer, payee, auth)
    ELSE IF ~payer.init THEN AuthOut("BorshIoError", payer, payee, auth)
    ELSE IF sum.panic THEN AuthOut("Panic", payer, payee, auth)
    ELSE IF payer.available_balance_e6 < total_deduction
         THEN AuthOut("InsufficientBalance", payer, payee, auth)
    ELSE IF p.panic THEN AuthOut("Panic", payer, payee, auth)
    ELSE IF ~payee0.init THEN AuthOut("BorshIoError", payer2, payee0, auth)
    ELSE IF q.panic THEN AuthOut("Panic", payer2, payee0, auth)
    ELSE IF e.res # "Ok" THEN AuthOut("RecurringAuthExecutionFailed", payer2, payee2, auth)
    ELSE AuthOut("Ok", payer2, payee2, e.auth)

\* with payer = payee the payee record is read from the payer's written buffer
process_execute_recurring_payment(cfg, payer, payee, auth, admin, is_signer, users_pda_ok, auth_pda_ok, amount, fee, cycle_count, same_account) ==
    LET sum == unchecked_u64(amount + fee)
        total_deduction == as_i64(sum.v)
        p == unchecked(payer.available_balance_e6 - total_deduction)
        payer2 == [payer EXCEPT !.available_balance_e6 = p.v]
        payee0 == IF same_account THEN payer2 ELSE payee
        q == unchecked(payee0.available_balance_e6 + as_i64(amount))
        payee2 == [payee0 EXCEPT !.available_balance_e6 = q.v]
        e == execute(auth)
    IN
    IF ~is_signer THEN AuthOut("MissingSignature", payer, payee, auth)
    ELSE IF cfg.admin # admin THEN AuthOut("UnauthorizedAdmin", payer, payee, auth)
    ELSE IF ~users_pda_ok THEN AuthOut("InvalidUserAccount", payer, payee, auth)
    ELSE IF ~auth_pda_ok THEN AuthOut("InvalidPda", payer, payee, auth)
    ELSE IF ~auth.init THEN AuthOut("BorshIoError", payer, payee, auth)
    ELSE IF ~auth.is_active THEN AuthOut("RecurringAuthNotActive", payer, payee, auth)
    ELSE IF cycle_count # auth.current_cycles + 1
         THEN AuthOut("InvalidCycleCount", payer, payee, auth)
    ELSE IF ~payer.init THEN AuthOut("BorshIoError", payer, payee, auth)
    ELSE IF sum.panic THEN AuthOut("Panic", payer, payee, auth)
    ELSE IF payer.available_balance_e6 < total_deduction
         THEN AuthOut("InsufficientBalance", payer, payee, auth)
    ELSE IF p.panic THEN AuthOut("Panic", payer, payee, auth)
    ELSE IF ~payee0.init THEN AuthOut("BorshIoError", payer2, payee0, auth)
    ELSE IF q.panic THEN AuthOut("Panic", payer2, payee0, auth)
    ELSE IF e.res # "Ok" THEN AuthOut("RecurringAuthExecutionFailed", payer2, payee2, auth)
    ELSE AuthOut("Ok", payer2, payee2, e.auth)

process_cancel_recurring_auth(cfg, auth, admin, is_signer, auth_pda_ok) ==
    IF ~is_signer THEN [res |-> "MissingSignature", auth |-> auth]
    ELSE IF cfg.admin # admin THEN [res |-> "UnauthorizedAdmin", auth |-> auth]
    ELSE IF ~auth_pda_ok THEN [res |-> "InvalidPda", auth |-> auth]
    ELSE IF ~auth.init THEN [res |-> "BorshIoError", auth |-> auth]
    ELSE [res |-> "Ok", auth |-> cancel(auth)]

\* recurringAuth is the record at the PDA of the pair (payer 1, payee 2)
InitRecurringAuth(admin, m, amount, max_cycles, registration_fee) ==
    LET r == process_init_recurring_auth(config, users[1], recurringAuth, admin, m[1],
                                         TRUE, TRUE, amount, max_cycles, registration_fee) IN
    /\ users' = [users EXCEPT ![1] = r.a]
    /\ recurringAuth' = r.auth
    /\ last' = Label("InitRecurringAuth", admin, m[1], m[2],
                     [from |-> 1, to |-> 2, amount |-> amount, max_cycles |-> max_cycles,
                      fee |-> registration_fee], r.res)
    /\ UNCHANGED <<config, pmUsers, spotUsers, tokens, overflow_checks, pmFeeConfig>>

ExecuteRecurringPayment(admin, m, amount, fee, cycle_count) ==
    LET r == process_execute_recurring_payment(config, users[1], users[2], recurringAuth,
                 admin, m[1], TRUE, TRUE, amount, fee, cycle_count, FALSE) IN
    /\ users' = [[users EXCEPT ![1] = r.a] EXCEPT ![2] = r.b]
    /\ recurringAuth' = r.auth
    /\ last' = Label("ExecuteRecurringPayment", admin, m[1], m[2],
                     [from |-> 1, to |-> 2, amount |-> amount, fee |-> fee,
                      cycle_count |-> cycle_count], r.res)
    /\ UNCHANGED <<config, pmUsers, spotUsers, tokens, overflow_checks, pmFeeConfig>>

CancelRecurringAuth(admin, m) ==
    LET r == process_cancel_recurring_auth(config, recurringAuth, admin, m[1], TRUE) IN
    /\ recurringAuth' = r.auth
    /\ last' = Label("CancelRecurringAuth", admin, m[1], m[2], [from |-> 1, to |-> 2], r.res)
    /\ UNCHANGED <<config, users, pmUsers, spotUsers, tokens, overflow_checks, pmFeeConfig>>

-----------------------------------------------------------------------------
(* Specification of the internal payments: the admin transfers between the *)
(* UserAccounts of wallets 1 and 2 and runs a recurring authorization of   *)
(* wallet 1 to wallet 2, under both build profiles of the arithmetic.      *)

\* executions attempted on one authorization (current_cycles is a u32)
MaxCycles == 4

InitPay ==
    /\ config = process_initialize(InitAdmin, InitLedgerProgram, InitFundProgram)
    /\ users = [w \in Wallets |->
                  IF w = 1
                  THEN process_relayer_deposit(config, NoUser, InitAdmin, TRUE, TRUE, TRUE, Big).user
                  ELSE NoUser]
    /\ pmUsers = [w \in Wallets |-> NoPMUser]
    /\ pmFeeConfig = NoFeeConfig
    /\ spotUsers = [w \in Wallets |-> NoSpotUser]
    /\ recurringAuth = NoAuth
    /\ tokens = NoTokens
    /\ overflow_checks \in BOOLEAN
    /\ last = NoLabel

NextPay ==
    \/ RelayerDeposit(InitAdmin, <<TRUE, TRUE>>, 2, TRUE, Big)
    \/ \E amount \in {Big, Neg(Big)}, fee \in {0, Big} :
          RelayerInternalTransfer(InitAdmin, <<TRUE, TRUE>>, 1, 2, TRUE, amount, fee)
    \/ \E max_cycles \in {0, 3}, registration_fee \in {0, Big} :
          InitRecurringAuth(InitAdmin, <<TRUE, TRUE>>, Big, max_cycles, registration_fee)
    \/ \E amount \in {0, Big}, cycle_count \in 1..MaxCycles :
          ExecuteRecurringPayment(InitAdmin, <<TRUE, TRUE>>, amount, 0, cycle_count)
    \/ CancelRecurringAuth(InitAdmin, <<TRUE, TRUE>>)

SpecPay == InitPay /\ [][NextPay]_vars

PayOps == {"RelayerInternalTransfer", "ExecuteRecurringPayment"}

\* C7: a transfer or a recurring payment either succeeds with the payer
\* debited, the payee credited and (recurring payment) the cycle counted,
\* or fails with the payer, the payee and the authorization as they were.
C7_PayAllOrNothing ==
    [][last'.op \in PayOps =>
        IF last'.res = "Ok"
        THEN /\ users'[1].available_balance_e6 # users[1].available_balance_e6
                  \/ last'.arg.amount + last'.arg.fee = 0
             /\ users'[2].available_balance_e6 # users[2].available_balance_e6
                  \/ last'.arg.amount = 0
             /\ last'.op = "ExecuteRecurringPayment" =>
                  recurringAuth'.current_cycles = recurringAuth.current_cycles + 1
        ELSE users' = users /\ recurringAuth' = recurringAuth]_vars

\* C8: a balance an internal transfer stores is the exact result of
\* subtracting amount + fee from the sender's, or of adding amount to the
\* receiver's, available balance; when an exact result does not fit an i64
\* the transfer fails with Overflow and stores nothing.
C8_ExactOrOverflow ==
    [][last'.op = "RelayerInternalTransfer" =>
        LET exact_from == users[1].available_balance_e6 - (last'.arg.amount + last'.arg.fee)
            exact_to   == users[2].available_balance_e6 + last'.arg.amount
        IN
        /\ users'[1].available_balance_e6 \in {users[1].available_balance_e6, exact_from}
        /\ users'[2].available_balance_e6 \in {users[2].available_balance_e6, exact_to}
        /\ (users[1].init /\ users[2].init
              /\ users[1].available_balance_e6 >= last'.arg.amount + last'.arg.fee
              /\ (exact_from < I64_MIN \/ exact_to > I64_MAX)) =>
                  last'.res = "Overflow" /\ users' = users]_vars

\* C10: a successful execution counts one cycle and leaves an authorization
\* with max_cycles = N > 0 active exactly while fewer than N cycles are
\* counted, and an authorization with max_cycles = 0 active; an active
\* authorization with N > 0 has counted fewer than N cycles.
C10_Cycles ==
    /\ [][last'.op = "ExecuteRecurringPayment" /\ last'.res = "Ok" =>
            /\ recurringAuth.is_active
            /\ recurringAuth'.current_cycles = recurringAuth.current_cycles + 1
            /\ recurringAuth'.max_cycles = recurringAuth.max_cycles
            /\ recurringAuth'.is_active =
                  (recurringAuth.max_cycles = 0
                   \/ recurringAuth'.current_cycles < recurringAuth.max_cycles)]_vars
    /\ [](recurringAuth.init /\ recurringAuth.is_active /\ recurringAuth.max_cycles > 0 =>
            recurringAuth.current_cycles < recurringAuth.max_cycles)

\* the third execution of an authorization of three cycles has ended it
C10_Witness ==
    /\ last.op = "ExecuteRecurringPayment" /\ last.res = "Ok" /\ last.arg.cycle_count = 3
    /\ recurringAuth.max_cycles = 3 /\ recurringAuth.current_cycles = 3
    /\ ~recurringAuth.is_active

\* C11: an execution presented to an existing inactive authorization fails
\* with RecurringAuthNotActive, and one presented to an active authorization
\* with a cycle index other than current_cycles + 1 fails with
\* InvalidCycleCount; both leave the payer, the payee and the authorization
\* as they were.
C11_Rejected ==
    [][last'.op = "ExecuteRecurringPayment" /\ recurringAuth.init =>
        /\ ~recurringAuth.is_active =>
              /\ last'.res = "RecurringAuthNotActive"
              /\ users' = users /\ recurringAuth' = recurringAuth
        /\ (recurringAuth.is_active
              /\ last'.arg.cycle_count # recurringAuth.current_cycles + 1) =>
              /\ last'.res = "InvalidCycleCount"
              /\ users' = users /\ recurringAuth' = recurringAuth]_vars

\* cycle 1 is replayed to an authorization that has counted two cycles
C11_Witness ==
    /\ last.op = "ExecuteRecurringPayment" /\ last.res = "InvalidCycleCount"
    /\ last.arg.cycle_count = 1
    /\ recurringAuth.is_active /\ recurringAuth.current_cycles = 2

\* C12: an inactive authorization stays inactive under every operation and
\* every execution presented to it fails; CancelRecurringAuth changes at
\* most the active flag of the authorization and no balance of any user.
C12_Terminal ==
    /\ [][(recurringAuth.init /\ ~recurringAuth.is_active) =>
            /\ recurringAuth'.init /\ ~recurringAuth'.is_active
            /\ last'.op = "ExecuteRecurringPayment" => last'.res # "Ok"]_vars
    /\ [][last'.op = "CancelRecurringAuth" =>
            /\ users' = users /\ spotUsers' = spotUsers /\ tokens' = tokens
            /\ config' = config
            /\ recurringAuth' \in {recurringAuth, [recurringAuth EXCEPT !.is_active = FALSE]}
            /\ last'.res = "Ok" => ~recurringAuth'.is_active]_vars

\* a cancelled authorization of unlimited cycles has refused an execution
C12_Witness ==
    /\ last.op = "ExecuteRecurringPayment" /\ last.res = "RecurringAuthNotActive"
    /\ recurringAuth.init /\ recurringAuth.max_cycles = 0 /\ ~recurringAuth.is_active

-----------------------------------------------------------------------------
(* Specification of the recurring payments with fees: the admin runs an    *)
(* authorization of wallet 1 to wallet 2, both funded, with amounts of     *)
(* both halves of the u64 range and with fees.                             *)

InitRecur ==
    /\ config = process_initialize(InitAdmin, InitLedgerProgram, InitFundProgram)
    /\ users = [w \in Wallets |->
                  process_relayer_deposit(config, NoUser, InitAdmin, TRUE, TRUE, TRUE, Big).user]
    /\ pmUsers = [w \in Wallets |-> NoPMUser]
    /\ pmFeeConfig = NoFeeConfig
    /\ spotUsers = [w \in Wallets |-> NoSpotUser]
    /\ recurringAuth = NoAuth
    /\ tokens = NoTokens
    /\ overflow_checks \in BOOLEAN
    /\ last = NoLabel

NextRecur ==
    \/ \E max_cycles \in {0, 3} :
          InitRecurringAuth(InitAdmin, <<TRUE, TRUE>>, Big, max_cycles, 0)
    \/ \E amount \in {0, 2, Big, Neg(2)}, fee \in {0, 1}, cycle_count \in 1..2 :
          ExecuteRecurringPayment(InitAdmin, <<TRUE, TRUE>>, amount, fee, cycle_count)
    \/ CancelRecurringAuth(InitAdmin, <<TRUE, TRUE>>)

SpecRecur == InitRecur /\ [][NextRecur]_vars

\* C13: a successful execution takes amount + fee from the payer's available
\* balance, adds amount to the payee's, adds fee to the insurance holding and
\* counts one cycle; an execution that passed the authorization checks with
\* a payer holding less than amount + fee fails with InsufficientBalance.
C13_Execution ==
    [][last'.op = "ExecuteRecurringPayment" =>
        /\ last'.res = "Ok" =>
              /\ users'[1].available_balance_e6
                    = users[1].available_balance_e6 - (last'.arg.amount + last'.arg.fee)
              /\ users'[2].available_balance_e6
                    = users[2].available_balance_e6 + last'.arg.amount
              /\ tokens'.insurance = tokens.insurance + last'.arg.fee
              /\ recurringAuth'.current_cycles = recurringAuth.current_cycles + 1
        /\ (recurringAuth.init /\ recurringAuth.is_active
              /\ last'.arg.cycle_count = recurringAuth.current_cycles + 1
              /\ users[1].init /\ users[2].init
              /\ users[1].available_balance_e6 < last'.arg.amount + last'.arg.fee) =>
                 last'.res = "InsufficientBalance"]_vars

-----------------------------------------------------------------------------
(* Specification of self-service deposits and withdrawals: wallet 1, with  *)
(* an initialized UserAccount and tokens in hand, deposits and withdraws   *)
(* while the admin pauses and resumes the vault.                           *)

InitSelf ==
    /\ config = process_initialize(InitAdmin, InitLedgerProgram, InitFundProgram)
    /\ users = [w \in Wallets |->
                  IF w = 1 THEN process_initialize_user(NoUser, TRUE, TRUE).user ELSE NoUser]
    /\ pmUsers = [w \in Wallets |-> NoPMUser]
    /\ pmFeeConfig = NoFeeConfig
    /\ spotUsers = [w \in Wallets |-> NoSpotUser]
    /\ recurringAuth = NoAuth
    /\ tokens = [NoTokens EXCEPT !.user = Big]
    /\ overflow_checks = FALSE
    /\ last = NoLabel

NextSelf ==
    \/ \E m \in Metas, amount \in {0, Big} : Deposit(1, m, amount)
    \/ \E m \in Metas, amount \in {0, Big, Neg(Big)} : Withdraw(1, m, amount)
    \/ \E paused \in BOOLEAN : SetPaused(InitAdmin, <<TRUE, TRUE>>, paused)

SpecSelf == InitSelf /\ [][NextSelf]_vars

\* C17: a successful Deposit adds amount to available and total_deposited; a
\* successful Withdraw takes amount from available, adds it to
\* total_withdrawn and had available >= amount; with amount = 0 both fail
\* with InvalidAmount, with amount > 0 on a paused vault with VaultPaused,
\* and a Withdraw of more than available on a running vault with
\* InsufficientBalance, the account unchanged in each case; on a running
\* vault a Deposit of tokens in hand and a Withdraw of at most available
\* succeed.
C17_SelfService ==
    [][(last'.op \in {"Deposit", "Withdraw"} /\ last'.signer /\ last'.writable) =>
        LET pre == users[1]
            post == users'[1]
            amount == last'.arg.amount
        IN
        /\ (last'.op = "Deposit" /\ last'.res = "Ok") =>
              /\ post.available_balance_e6 = pre.available_balance_e6 + amount
              /\ post.total_deposited_e6 = pre.total_deposited_e6 + amount
        /\ (last'.op = "Withdraw" /\ last'.res = "Ok") =>
              /\ pre.available_balance_e6 >= amount
              /\ post.available_balance_e6 = pre.available_balance_e6 - amount
              /\ post.total_withdrawn_e6 = pre.total_withdrawn_e6 + amount
        /\ amount = 0 => last'.res = "InvalidAmount" /\ users' = users
        /\ (amount > 0 /\ config.is_paused) => last'.res = "VaultPaused" /\ users' = users
        /\ (last'.op = "Withdraw" /\ amount > 0 /\ ~config.is_paused
              /\ pre.available_balance_e6 < amount) =>
                 last'.res = "InsufficientBalance" /\ users' = users
        /\ (last'.op = "Deposit" /\ amount > 0 /\ ~config.is_paused
              /\ tokens.user >= amount /\ pre.available_balance_e6 + amount <= I64_MAX
              /\ pre.total_deposited_e6 + amount <= I64_MAX) => last'.res = "Ok"
        /\ (last'.op = "Withdraw" /\ amount > 0 /\ ~config.is_paused
              /\ pre.available_balance_e6 >= amount /\ tokens.vault >= amount
              /\ pre.total_withdrawn_e6 + amount <= I64_MAX) => last'.res = "Ok"]_vars

-----------------------------------------------------------------------------
(* Specification of the margin instructions: the ledger program locks and  *)
(* releases the margin of wallet 1 and liquidates it, with arguments of    *)
(* both halves of the u64 range.                                           *)

\* a quarter of the positive i64 range
Half == Big \div 2

InitMargin ==
    /\ config = FundedUser(Big, Big).config
    /\ users = [w \in Wallets |-> IF w = 1 THEN FundedUser(Big, Big).user ELSE NoUser]
    /\ tokens = FundedUser(Big, Big).tokens
    /\ pmUsers = [w \in Wallets |-> NoPMUser]
    /\ pmFeeConfig = NoFeeConfig
    /\ spotUsers = [w \in Wallets |-> NoSpotUser]
    /\ recurringAuth = NoAuth
    /\ overflow_checks = FALSE
    /\ last = NoLabel

NextMargin ==
    \/ \E is_writable \in BOOLEAN, amount \in {0, Half, Big, Neg(Half)} :
          LockMargin(InitLedgerProgram, 1, is_writable, amount)
    \/ \E is_writable \in BOOLEAN, amount \in {0, Half, Big, Neg(Half)} :
          ReleaseMargin(InitLedgerProgram, 1, is_writable, amount)
    \/ \E accounts_ok \in BOOLEAN, margin \in {0, Big}, user_remainder \in {0, Half, Neg(Half)},
          liquidation_penalty \in {0, Half} :
          LiquidatePosition(InitLedgerProgram, 1, TRUE, accounts_ok, margin, user_remainder,
                            liquidation_penalty)

SpecMargin == InitMargin /\ [][NextMargin]_vars

\* C18: a successful LockMargin takes amount from available and adds it to
\* locked_margin, a successful ReleaseMargin the reverse, and available +
\* locked_margin is as before; an authorized LockMargin of more than
\* available fails with InsufficientBalance and a ReleaseMargin of more than
\* locked_margin with InsufficientMargin, the account unchanged.
C18_Margin ==
    [][(last'.op \in {"LockMargin", "ReleaseMargin"} /\ last'.writable) =>
        LET pre == users[1]
            post == users'[1]
            amount == last'.arg.amount
            lock == last'.op = "LockMargin"
        IN
        /\ last'.res = "Ok" =>
              /\ post.available_balance_e6 =
                    pre.available_balance_e6 + (IF lock THEN 0 - amount ELSE amount)
              /\ post.locked_margin_e6 =
                    pre.locked_margin_e6 + (IF lock THEN amount ELSE 0 - amount)
        /\ Total(post) = Total(pre)
        /\ (lock /\ amount > 0 /\ pre.available_balance_e6 < amount) =>
              last'.res = "InsufficientBalance" /\ post = pre
        /\ (~lock /\ amount > 0 /\ pre.locked_margin_e6 < amount) =>
              last'.res = "InsufficientMargin" /\ post = pre]_vars

\* C19: a successful LiquidatePosition leaves locked_margin = 0 and
\* available higher by user_remainder, moves liquidation_penalty from the
\* vault holding to the insurance holding when it is positive and no token
\* otherwise, and its outcome is the one of the same call with any other
\* margin argument.
C19_Liquidation ==
    [][last'.op = "LiquidatePosition" =>
        /\ last'.res = "Ok" =>
              /\ users'[1].locked_margin_e6 = 0
              /\ users'[1].available_balance_e6 =
                    users[1].available_balance_e6 + last'.arg.user_remainder
              /\ tokens' = [tokens EXCEPT
                               !.vault = @ - last'.arg.liquidation_penalty,
                               !.insurance = @ + last'.arg.liquidation_penalty]
        /\ \A margin \in {0, Big} :
              LET r == process_liquidate_position(config, users[1], tokens, last'.writable,
                          last'.caller, last'.arg.accounts_ok, margin,
                          last'.arg.user_remainder, last'.arg.liquidation_penalty)
              IN r.res = last'.res /\ r.user = users'[1] /\ r.tokens = tokens']_vars

-----------------------------------------------------------------------------
(* PredictionMarketUserAccount (state.rs) and the prediction-market        *)
(* handlers.  The methods use plain `+=` and `-=` on i64 fields.            *)

PredictionMarketUserAccount_new == [NoPMUser EXCEPT !.init = TRUE]

prediction_market_lock(pm, amount) ==
    LET l == unchecked(pm.prediction_market_locked_e6 + amount)
        d == unchecked(pm.prediction_market_total_deposited_e6 + amount)
    IN [res |-> IF l.panic \/ d.panic THEN "Panic" ELSE "Ok",
        pm |-> [pm EXCEPT !.prediction_market_locked_e6 = l.v,
                          !.prediction_market_total_deposited_e6 = d.v]]

prediction_market_unlock(pm, amount) ==
    LET l == unchecked(pm.prediction_market_locked_e6 - amount)
        w == unchecked(pm.prediction_market_total_withdrawn_e6 + amount)
    IN IF pm.prediction_market_locked_e6 < amount THEN [res |-> "Err", pm |-> pm]
       ELSE [res |-> IF l.panic \/ w.panic THEN "Panic" ELSE "Ok",
             pm |-> [pm EXCEPT !.prediction_market_locked_e6 = l.v,
                               !.prediction_market_total_withdrawn_e6 = w.v]]

prediction_market_settle(pm, locked_to_release, settlement_amount) ==
    LET l == unchecked(pm.prediction_market_locked_e6 - locked_to_release)
        s == unchecked(pm.prediction_market_pending_settlement_e6 + settlement_amount)
        pnl == unchecked(settlement_amount - locked_to_release)
        r == unchecked(pm.prediction_market_realized_pnl_e6 + pnl.v)
    IN IF pm.prediction_market_locked_e6 < locked_to_release THEN [res |-> "Err", pm |-> pm]
       ELSE [res |-> IF l.panic \/ s.panic \/ pnl.panic \/ r.panic THEN "Panic" ELSE "Ok",
             pm |-> [pm EXCEPT !.prediction_market_locked_e6 = l.v,
                               !.prediction_market_pending_settlement_e6 = s.v,
                               !.prediction_market_realized_pnl_e6 = r.v]]

\* outcome of a prediction-market handler: the ProgramResult and the
\* UserAccount, the PredictionMarketUserAccount, the token balances and the
\* fee-policy record as the handler leaves them
PMOut(res, ua, pm, tok, fc) ==
    [res |-> res, user |-> ua, pm |-> pm, tokens |-> tok, fee_config |-> fc]

\* ((amount as u128) * (fee_bps as u128) / 10000) as u64, with the product
\* split so that no intermediate value leaves the checker's integers
fee_amount(amount, fee_bps) ==
    wrap_u64((amount \div 10000) * fee_bps + ((amount % 10000) * fee_bps) \div 10000)

\* payer_ok: the optional payer, system program (and user wallet) accounts
\* are present; pda_ok: the empty account is the PDA of the user's wallet
process_prediction_market_lock(cfg, ua, pm, is_writable, caller, payer_ok, pda_ok, amount) ==
    LET a == checked_sub(ua.available_balance_e6, as_i64(amount))
        ua2 == [ua EXCEPT !.available_balance_e6 = a.v]
        pm0 == IF pm.init THEN pm ELSE PredictionMarketUserAccount_new
        l == prediction_market_lock(pm0, as_i64(amount))
    IN
    IF ~is_writable THEN [res |-> "InvalidAccountData", user |-> ua, pm |-> pm]
    ELSE IF amount = 0 THEN [res |-> "InvalidAmount", user |-> ua, pm |-> pm]
    ELSE IF verify_cpi_caller(cfg, caller) # "Ok"
         THEN [res |-> verify_cpi_caller(cfg, caller), user |-> ua, pm |-> pm]
    ELSE IF ~ua.init THEN [res |-> "BorshIoError", user |-> ua, pm |-> pm]
    ELSE IF ua.available_balance_e6 < as_i64(amount)
         THEN [res |-> "InsufficientBalance", user |-> ua, pm |-> pm]
    ELSE IF ~a.ok THEN [res |-> "Overflow", user |-> ua, pm |-> pm]
    ELSE IF ~pm.init /\ ~payer_ok THEN [res |-> "InvalidAccount", user |-> ua2, pm |-> pm]
    ELSE IF ~pm.init /\ ~pda_ok THEN [res |-> "InvalidPda", user |-> ua2, pm |-> pm]
    ELSE IF l.res # "Ok" THEN [res |-> l.res, user |-> ua2, pm |-> pm0]
    ELSE [res |-> "Ok", user |-> ua2, pm |-> l.pm]

process_prediction_market_unlock(cfg, ua, pm, is_writable, caller, amount) ==
    LET u == prediction_market_unlock(pm, as_i64(amount))
        a == checked_add(ua.available_balance_e6, as_i64(amount))
    IN
    IF ~is_writable THEN [res |-> "InvalidAccountData", user |-> ua, pm |-> pm]
    ELSE IF amount = 0 THEN [res |-> "InvalidAmount", user |-> ua, pm |-> pm]
    ELSE IF verify_cpi_caller(cfg, caller) # "Ok"
         THEN [res |-> verify_cpi_caller(cfg, caller), user |-> ua, pm |-> pm]
    ELSE IF ~pm.init THEN [res |-> "BorshIoError", user |-> ua, pm |-> pm]
    ELSE IF u.res = "Err" THEN [res |-> "InsufficientMargin", user |-> ua, pm |-> pm]
    ELSE IF u.res # "Ok" THEN [res |-> u.res, user |-> ua, pm |-> pm]
    ELSE IF ~ua.init THEN [res |-> "BorshIoError", user |-> ua, pm |-> u.pm]
    ELSE IF ~a.ok THEN [res |-> "Overflow", user |-> ua, pm |-> u.pm]
    ELSE [res |-> "Ok", user |-> [ua EXCEPT !.available_balance_e6 = a.v], pm |-> u.pm]

process_prediction_market_settle(cfg, pm, is_writable, caller, payer_ok, pda_ok, locked_amount, settlement_amount) ==
    LET pm0 == IF pm.init THEN pm ELSE PredictionMarketUserAccount_new
        s == prediction_market_settle(pm0, as_i64(locked_amount), as_i64(settlement_amount))
    IN
    IF ~is_writable THEN [res |-> "InvalidAccountData", pm |-> pm]
    ELSE IF verify_cpi_caller(cfg, caller) # "Ok"
         THEN [res |-> verify_cpi_caller(cfg, caller), pm |-> pm]
    ELSE IF ~pm.init /\ ~payer_ok THEN [res |-> "InvalidAccount", pm |-> pm]
    ELSE IF ~pm.init /\ ~pda_ok THEN [res |-> "InvalidPda", pm |-> pm]
    ELSE IF s.res = "Err" THEN [res |-> "InsufficientMargin", pm |-> pm0]
    ELSE IF s.res # "Ok" THEN [res |-> s.res, pm |-> pm0]
    ELSE [res |-> "Ok", pm |-> s.pm]

\* vault_ok: the vault token account is the configured one; fee_vault_ok:
\* the fee vault is the one named by the fee-policy record.  The config
\* account is the vault_config PDA, so the PDA test before the fee transfer
\* passes.
process_prediction_market_lock_with_fee(cfg, ua, pm, tok, fc, is_writable, caller, vault_ok, fee_vault_ok, payer_ok, pda_ok, gross_amount) ==
    LET fee == fee_amount(gross_amount, fc.minting_fee_bps)
        net_amount == IF fee > gross_amount THEN 0 ELSE gross_amount - fee
        a == checked_sub(ua.available_balance_e6, as_i64(gross_amount))
        ua2 == [ua EXCEPT !.available_balance_e6 = a.v]
        pm0 == IF pm.init THEN pm ELSE PredictionMarketUserAccount_new
        l == prediction_market_lock(pm0, as_i64(net_amount))
        t == transfer(tok, "vault", "fee_vault", fee)
        new_total == IF fc.total_minting_fee + as_i64(fee) > I64_MAX THEN I64_MAX
                     ELSE IF fc.total_minting_fee + as_i64(fee) < I64_MIN THEN I64_MIN
                     ELSE fc.total_minting_fee + as_i64(fee)
    IN
    IF ~is_writable THEN PMOut("InvalidAccountData", ua, pm, tok, fc)
    ELSE IF gross_amount = 0 THEN PMOut("InvalidAmount", ua, pm, tok, fc)
    ELSE IF verify_cpi_caller(cfg, caller) # "Ok"
         THEN PMOut(verify_cpi_caller(cfg, caller), ua, pm, tok, fc)
    ELSE IF ~vault_ok \/ ~fc.init \/ ~fee_vault_ok THEN PMOut("InvalidAccount", ua, pm, tok, fc)
    ELSE IF ~ua.init THEN PMOut("BorshIoError", ua, pm, tok, fc)
    ELSE IF ua.available_balance_e6 < as_i64(gross_amount)
         THEN PMOut("InsufficientBalance", ua, pm, tok, fc)
    ELSE IF ~a.ok THEN PMOut("Overflow", ua, pm, tok, fc)
    ELSE IF ~pm.init /\ ~payer_ok THEN PMOut("InvalidAccount", ua2, pm, tok, fc)
    ELSE IF ~pm.init /\ ~pda_ok THEN PMOut("InvalidPda", ua2, pm, tok, fc)
    ELSE IF l.res # "Ok" THEN PMOut(l.res, ua2, pm0, tok, fc)
    ELSE IF fee = 0 THEN PMOut("Ok", ua2, l.pm, tok, fc)
    ELSE IF ~t.ok THEN PMOut("TokenError", ua2, l.pm, tok, fc)
    ELSE PMOut("Ok", ua2, l.pm, t.v, [fc EXCEPT !.total_minting_fee = new_total])

process_prediction_market_unlock_with_fee(cfg, ua, pm, tok, fc, is_writable, caller, vault_ok, fee_vault_ok, gross_amount) ==
    LET fee == fee_amount(gross_amount, fc.redemption_fee_bps)
        net_amount == IF fee > gross_amount THEN 0 ELSE gross_amount - fee
        u == prediction_market_unlock(pm, as_i64(gross_amount))
        a == checked_add(ua.available_balance_e6, as_i64(net_amount))
        ua2 == [ua EXCEPT !.available_balance_e6 = a.v]
        t == transfer(tok, "vault", "fee_vault", fee)
        new_total == IF fc.total_redemption_fee + as_i64(fee) > I64_MAX THEN I64_MAX
                     ELSE IF fc.total_redemption_fee + as_i64(fee) < I64_MIN THEN I64_MIN
                     ELSE fc.total_redemption_fee + as_i64(fee)
    IN
    IF ~is_writable THEN PMOut("InvalidAccountData", ua, pm, tok, fc)
    ELSE IF gross_amount = 0 THEN PMOut("InvalidAmount", ua, pm, tok, fc)
    ELSE IF verify_cpi_caller(cfg, caller) # "Ok"
         THEN PMOut(verify_cpi_caller(cfg, caller), ua, pm, tok, fc)
    ELSE IF ~vault_ok \/ ~fc.init \/ ~fee_vault_ok THEN PMOut("InvalidAccount", ua, pm, tok, fc)
    ELSE IF ~pm.init THEN PMOut("BorshIoError", ua, pm, tok, fc)
    ELSE IF u.res = "Err" THEN PMOut("InsufficientMargin", ua, pm, tok, fc)
    ELSE IF u.res # "Ok" THEN PMOut(u.res, ua, pm, tok, fc)
    ELSE IF ~ua.init THEN PMOut("BorshIoError", ua, u.pm, tok, fc)
    ELSE IF ~a.ok THEN PMOut("Overflow", ua, u.pm, tok, fc)
    ELSE IF fee = 0 THEN PMOut("Ok", ua2, u.pm, tok, fc)
    ELSE IF ~t.ok THEN PMOut("TokenError", ua2, u.pm, tok, fc)
    ELSE PMOut("Ok", ua2, u.pm, t.v, [fc EXCEPT !.total_redemption_fee = new_total])

\* a trade amount of 0 returns Ok before the caller is verified
process_prediction_market_trade_with_fee(cfg, tok, fc, is_writable, caller, vault_ok, fee_vault_ok, trade_amount, is_taker) ==
    LET fee_bps == IF is_taker THEN fc.trading_fee_taker_bps ELSE fc.trading_fee_maker_bps
        fee == fee_amount(trade_amount, fee_bps)
        t == transfer(tok, "vault", "fee_vault", fee)
        new_total == IF fc.total_trading_fee + as_i64(fee) > I64_MAX THEN I64_MAX
                     ELSE IF fc.total_trading_fee + as_i64(fee) < I64_MIN THEN I64_MIN
                     ELSE fc.total_trading_fee + as_i64(fee)
    IN
    IF ~is_writable THEN [res |-> "InvalidAccountData", tokens |-> tok, fee_config |-> fc]
    ELSE IF trade_amount = 0 THEN [res |-> "Ok", tokens |-> tok, fee_config |-> fc]
    ELSE IF verify_cpi_caller(cfg, caller) # "Ok"
         THEN [res |-> verify_cpi_caller(cfg, caller), tokens |-> tok, fee_config |-> fc]
    ELSE IF ~vault_ok \/ ~fc.init \/ ~fee_vault_ok
         THEN [res |-> "InvalidAccount", tokens |-> tok, fee_config |-> fc]
    ELSE IF fee = 0 THEN [res |-> "Ok", tokens |-> tok, fee_config |-> fc]
    ELSE IF ~t.ok THEN [res |-> "TokenError", tokens |-> tok, fee_config |-> fc]
    ELSE [res |-> "Ok", tokens |-> t.v,
          fee_config |-> [fc EXCEPT !.total_trading_fee = new_total]]

\* the record is deserialized as it is: an empty account is not provisioned
process_prediction_market_settle_with_fee(cfg, pm, tok, fc, is_writable, caller, vault_ok, fee_vault_ok, locked_amount, settlement_amount) ==
    LET fee == fee_amount(settlement_amount, fc.settlement_fee_bps)
        net_settlement == IF fee > settlement_amount THEN 0 ELSE settlement_amount - fee
        l == checked_sub(pm.prediction_market_locked_e6, as_i64(locked_amount))
        s == checked_add(pm.prediction_market_pending_settlement_e6, as_i64(net_settlement))
        pm2 == [pm EXCEPT !.prediction_market_locked_e6 = l.v,
                          !.prediction_market_pending_settlement_e6 = s.v]
        t == transfer(tok, "vault", "fee_vault", fee)
    IN
    IF ~is_writable THEN [res |-> "InvalidAccountData", pm |-> pm, tokens |-> tok, fee_config |-> fc]
    ELSE IF verify_cpi_caller(cfg, caller) # "Ok"
         THEN [res |-> verify_cpi_caller(cfg, caller), pm |-> pm, tokens |-> tok, fee_config |-> fc]
    ELSE IF ~vault_ok \/ ~fc.init \/ ~fee_vault_ok THEN [res |-> "InvalidAccount", pm |-> pm, tokens |-> tok, fee_config |-> fc]
    ELSE IF ~pm.init THEN [res |-> "BorshIoError", pm |-> pm, tokens |-> tok, fee_config |-> fc]
    ELSE IF ~l.ok \/ ~s.ok THEN [res |-> "Overflow", pm |-> pm, tokens |-> tok, fee_config |-> fc]
    ELSE IF fee = 0 THEN [res |-> "Ok", pm |-> pm2, tokens |-> tok, fee_config |-> fc]
    ELSE IF ~t.ok THEN [res |-> "TokenError", pm |-> pm2, tokens |-> tok, fee_config |-> fc]
    ELSE [res |-> "Ok", pm |-> pm2, tokens |-> t.v, fee_config |-> fc]

-----------------------------------------------------------------------------
(* Prediction-market instructions.  The PredictionMarketUserAccount passed *)
(* for wallet w is the account at the PDA of w.                            *)

PredictionMarketLock(c, w, is_writable, payer_ok, amount) ==
    LET r == process_prediction_market_lock(config, users[w], pmUsers[w], is_writable, c,
                                            payer_ok, TRUE, amount) IN
    /\ users' = [users EXCEPT ![w] = r.user]
    /\ pmUsers' = [pmUsers EXCEPT ![w] = r.pm]
    /\ last' = Label("PredictionMarketLock", c, FALSE, is_writable,
                     [wallet |-> w, payer_ok |-> payer_ok, amount |-> amount], r.res)
    /\ UNCHANGED <<config, spotUsers, recurringAuth, tokens, pmFeeConfig, overflow_checks>>

PredictionMarketUnlock(c, w, is_writable, amount) ==
    LET r == process_prediction_market_unlock(config, users[w], pmUsers[w], is_writable, c,
                                              amount) IN
    /\ users' = [users EXCEPT ![w] = r.user]
    /\ pmUsers' = [pmUsers EXCEPT ![w] = r.pm]
    /\ last' = Label("PredictionMarketUnlock", c, FALSE, is_writable,
                     [wallet |-> w, amount |-> amount], r.res)
    /\ UNCHANGED <<config, spotUsers, recurringAuth, tokens, pmFeeConfig, overflow_checks>>

PredictionMarketSettle(c, w, is_writable, payer_ok, locked_amount, settlement_amount) ==
    LET r == process_prediction_market_settle(config, pmUsers[w], is_writable, c, payer_ok,
                                              TRUE, locked_amount, settlement_amount) IN
    /\ pmUsers' = [pmUsers EXCEPT ![w] = r.pm]
    /\ last' = Label("PredictionMarketSettle", c, FALSE, is_writable,
                     [wallet |-> w, payer_ok |-> payer_ok, locked_amount |-> locked_amount,
                      settlement_amount |-> settlement_amount], r.res)
    /\ UNCHANGED <<config, users, spotUsers, recurringAuth, tokens, pmFeeConfig,
                   overflow_checks>>

PredictionMarketLockWithFee(c, w, is_writable, accounts_ok, payer_ok, gross_amount) ==
    LET r == process_prediction_market_lock_with_fee(config, users[w], pmUsers[w], tokens,
                 pmFeeConfig, is_writable, c, accounts_ok, accounts_ok, payer_ok, TRUE,
                 gross_amount) IN
    /\ users' = [users EXCEPT ![w] = r.user]
    /\ pmUsers' = [pmUsers EXCEPT ![w] = r.pm]
    /\ tokens' = r.tokens
    /\ pmFeeConfig' = r.fee_config
    /\ last' = Label("PredictionMarketLockWithFee", c, FALSE, is_writable,
                     [wallet |-> w, accounts_ok |-> accounts_ok, payer_ok |-> payer_ok,
                      amount |-> gross_amount], r.res)
    /\ UNCHANGED <<config, spotUsers, recurringAuth, overflow_checks>>

PredictionMarketUnlockWithFee(c, w, is_writable, accounts_ok, gross_amount) ==
    LET r == process_prediction_market_unlock_with_fee(config, users[w], pmUsers[w], tokens,
                 pmFeeConfig, is_writable, c, accounts_ok, accounts_ok, gross_amount) IN
    /\ users' = [users EXCEPT ![w] = r.user]
    /\ pmUsers' = [pmUsers EXCEPT ![w] = r.pm]
    /\ tokens' = r.tokens
    /\ pmFeeConfig' = r.fee_config
    /\ last' = Label("PredictionMarketUnlockWithFee", c, FALSE, is_writable,
                     [wallet |-> w, accounts_ok |-> accounts_ok, amount |-> gross_amount],
                     r.res)
    /\ UNCHANGED <<config, spotUsers, recurringAuth, overflow_checks>>

PredictionMarketTradeWithFee(c, is_writable, accounts_ok, trade_amount, is_taker) ==
    LET r == process_prediction_market_trade_with_fee(config, tokens, pmFeeConfig,
                 is_writable, c, accounts_ok, accounts_ok, trade_amount, is_taker) IN
    /\ tokens' = r.tokens
    /\ pmFeeConfig' = r.fee_config
    /\ last' = Label("PredictionMarketTradeWithFee", c, FALSE, is_writable,
                     [accounts_ok |-> accounts_ok, amount |-> trade_amount,
                      is_taker |-> is_taker], r.res)
    /\ UNCHANGED <<config, users, pmUsers, spotUsers, recurringAuth, overflow_checks>>

PredictionMarketSettleWithFee(c, w, is_writable, accounts_ok, locked_amount, settlement_amount) ==
    LET r == process_prediction_market_settle_with_fee(config, pmUsers[w], tokens,
                 pmFeeConfig, is_writable, c, accounts_ok, accounts_ok, locked_amount,
                 settlement_amount) IN
    /\ pmUsers' = [pmUsers EXCEPT ![w] = r.pm]
    /\ tokens' = r.tokens
    /\ pmFeeConfig' = r.fee_config
    /\ last' = Label("PredictionMarketSettleWithFee", c, FALSE, is_writable,
                     [wallet |-> w, accounts_ok |-> accounts_ok,
                      locked_amount |-> locked_amount, amount |-> settlement_amount], r.res)
    /\ UNCHANGED <<config, users, spotUsers, recurringAuth, overflow_checks>>

-----------------------------------------------------------------------------
(* PredictionMarketClaimSettlement: the signer claims the pending          *)
(* settlement of a sub-ledger record into a UserAccount.                   *)

\* returns the claimed amount with the record
prediction_market_claim_settlement(pm) ==
    LET w == unchecked(pm.prediction_market_total_withdrawn_e6
                       + pm.prediction_market_pending_settlement_e6)
    IN [res |-> IF w.panic THEN "Panic" ELSE "Ok",
        amount |-> pm.prediction_market_pending_settlement_e6,
        pm |-> [pm EXCEPT !.prediction_market_pending_settlement_e6 = 0,
                          !.prediction_market_total_withdrawn_e6 = w.v]]

\* pm_wallet_ok, ua_wallet_ok: the wallet stored in the record is the signer
process_prediction_market_claim_settlement(ua, pm, is_signer, is_writable, pm_wallet_ok, ua_wallet_ok) ==
    LET c == prediction_market_claim_settlement(pm)
        a == checked_add(ua.available_balance_e6, c.amount)
    IN
    IF ~is_signer THEN [res |-> "MissingRequiredSignature", user |-> ua, pm |-> pm]
    ELSE IF ~is_writable THEN [res |-> "InvalidAccountData", user |-> ua, pm |-> pm]
    ELSE IF ~pm.init THEN [res |-> "BorshIoError", user |-> ua, pm |-> pm]
    ELSE IF ~pm_wallet_ok THEN [res |-> "InvalidAccount", user |-> ua, pm |-> pm]
    ELSE IF c.res # "Ok" THEN [res |-> c.res, user |-> ua, pm |-> pm]
    ELSE IF c.amount <= 0 THEN [res |-> "Ok", user |-> ua, pm |-> c.pm]
    ELSE IF ~ua.init THEN [res |-> "BorshIoError", user |-> ua, pm |-> c.pm]
    ELSE IF ~ua_wallet_ok THEN [res |-> "InvalidAccount", user |-> ua, pm |-> c.pm]
    ELSE IF ~a.ok THEN [res |-> "Overflow", user |-> ua, pm |-> c.pm]
    ELSE [res |-> "Ok", user |-> [ua EXCEPT !.available_balance_e6 = a.v], pm |-> c.pm]

\* w signs; uw and pw are the wallets whose UserAccount and sub-ledger
\* record are passed
PredictionMarketClaimSettlement(w, m, uw, pw) ==
    LET r == process_prediction_market_claim_settlement(users[uw], pmUsers[pw], m[1], m[2],
                                                        pw = w, uw = w) IN
    /\ users' = [users EXCEPT ![uw] = r.user]
    /\ pmUsers' = [pmUsers EXCEPT ![pw] = r.pm]
    /\ last' = Label("PredictionMarketClaimSettlement", w, m[1], m[2],
                     [wallet |-> uw, pm_wallet |-> pw], r.res)
    /\ UNCHANGED <<config, spotUsers, recurringAuth, tokens, pmFeeConfig, overflow_checks>>

-----------------------------------------------------------------------------
(* Specification of the prediction-market sub-ledger: the ledger program   *)
(* locks, unlocks and settles funds of wallet 1, whose sub-ledger record   *)
(* does not exist at the start.                                            *)

InitPM ==
    /\ config = FundedUser(Big, Big).config
    /\ users = [w \in Wallets |-> IF w = 1 THEN FundedUser(Big, Big).user
                                   ELSE [NoUser EXCEPT !.init = TRUE]]
    /\ tokens = FundedUser(Big, Big).tokens
    /\ pmUsers = [w \in Wallets |-> NoPMUser]
    /\ pmFeeConfig = NoFeeConfig
    /\ spotUsers = [w \in Wallets |-> NoSpotUser]
    /\ recurringAuth = NoAuth
    /\ overflow_checks \in BOOLEAN
    /\ last = NoLabel

NextPM ==
    \/ \E is_writable \in BOOLEAN, payer_ok \in BOOLEAN, amount \in {0, Half, Neg(Half)} :
          PredictionMarketLock(InitLedgerProgram, 1, is_writable, payer_ok, amount)
    \/ \E is_writable \in BOOLEAN, amount \in {0, Half, Neg(Half)} :
          PredictionMarketUnlock(InitLedgerProgram, 1, is_writable, amount)
    \/ \E payer_ok \in BOOLEAN :
          PredictionMarketSettle(InitLedgerProgram, 1, TRUE, payer_ok, Half, Half)

SpecPM == InitPM /\ [][NextPM]_vars

\* C20: a successful PredictionMarketLock takes amount from
\* UserAccount.available and adds it to the sub-ledger's locked and
\* cumulative deposited; a successful PredictionMarketUnlock takes amount
\* from the sub-ledger's locked and adds it to UserAccount.available and to
\* the cumulative withdrawn; both leave available + locked as it was.  A
\* lock of more than available fails with InsufficientBalance and an unlock
\* of more than locked fails, both records unchanged.
C20_SubLedger ==
    [][(last'.op \in {"PredictionMarketLock", "PredictionMarketUnlock"} /\ last'.writable) =>
        LET ua == users[1]
            ua2 == users'[1]
            pm == pmUsers[1]
            pm2 == pmUsers'[1]
            amount == last'.arg.amount
            lock == last'.op = "PredictionMarketLock"
        IN
        /\ (lock /\ last'.res = "Ok") =>
              /\ ua2.available_balance_e6 = ua.available_balance_e6 - amount
              /\ pm2.prediction_market_locked_e6 = pm.prediction_market_locked_e6 + amount
              /\ pm2.prediction_market_total_deposited_e6 =
                    pm.prediction_market_total_deposited_e6 + amount
        /\ (~lock /\ last'.res = "Ok") =>
              /\ pm2.prediction_market_locked_e6 = pm.prediction_market_locked_e6 - amount
              /\ ua2.available_balance_e6 = ua.available_balance_e6 + amount
              /\ pm2.prediction_market_total_withdrawn_e6 =
                    pm.prediction_market_total_withdrawn_e6 + amount
        /\ last'.res = "Ok" =>
              ua2.available_balance_e6 + pm2.prediction_market_locked_e6 =
                 ua.available_balance_e6 + pm.prediction_market_locked_e6
        /\ (lock /\ amount > 0 /\ ua.available_balance_e6 < amount) =>
              last'.res = "InsufficientBalance" /\ ua2 = ua /\ pm2 = pm
        /\ (~lock /\ amount > 0 /\ pm.prediction_market_locked_e6 < amount) =>
              last'.res # "Ok" /\ ua2 = ua /\ pm2 = pm]_vars

-----------------------------------------------------------------------------
(* Specification of the fee-bearing prediction-market instructions on      *)
(* wallet 1 under fee-policy records of 0, 50 and 15000 basis points; the  *)
(* vault holds the deposits of wallet 1 and of other users.                *)

InitPMFee ==
    /\ config = FundedUser(1000000, 1000000).config
    /\ users = [w \in Wallets |->
                  IF w = 1 THEN FundedUser(1000000, 1000000).user ELSE NoUser]
    /\ tokens = [NoTokens EXCEPT !.vault = 2000000]
    /\ pmUsers = [w \in Wallets |-> NoPMUser]
    /\ pmFeeConfig \in
          {[NoFeeConfig EXCEPT !.init = TRUE, !.minting_fee_bps = b,
                               !.redemption_fee_bps = b, !.trading_fee_taker_bps = 100 * b,
                               !.settlement_fee_bps = b] : b \in {0, 50}}
          \cup {[NoFeeConfig EXCEPT !.init = TRUE, !.minting_fee_bps = 15000,
                                    !.redemption_fee_bps = 15000]}
    /\ spotUsers = [w \in Wallets |-> NoSpotUser]
    /\ recurringAuth = NoAuth
    /\ overflow_checks = FALSE
    /\ last = NoLabel

NextPMFee ==
    \/ \E accounts_ok \in BOOLEAN, payer_ok \in BOOLEAN,
          gross_amount \in {0, 1000000, Neg(400000)} :
          PredictionMarketLockWithFee(InitLedgerProgram, 1, TRUE, accounts_ok, payer_ok,
                                      gross_amount)
    \/ \E accounts_ok \in BOOLEAN, gross_amount \in {0, 995000} :
          PredictionMarketUnlockWithFee(InitLedgerProgram, 1, TRUE, accounts_ok, gross_amount)
    \/ \E c \in {InitAdmin, InitLedgerProgram}, trade_amount \in {0, 400000},
          is_taker \in BOOLEAN :
          PredictionMarketTradeWithFee(c, TRUE, TRUE, trade_amount, is_taker)
    \/ \E locked_amount \in {0, 400000}, settlement_amount \in {400000} :
          PredictionMarketSettleWithFee(InitLedgerProgram, 1, TRUE, TRUE, locked_amount,
                                        settlement_amount)

SpecPMFee == InitPMFee /\ [][NextPMFee]_vars

\* floor(gross * bps / 10000), the product split as in fee_amount
FloorFee(gross, bps) == (gross \div 10000) * bps + ((gross % 10000) * bps) \div 10000

\* C14: with fee = floor(gross * bps / 10000) and net = gross - fee for the
\* rate of the fee-policy record, a successful PredictionMarketLockWithFee
\* takes gross from the user's available and adds net to the sub-ledger's
\* locked, and a successful PredictionMarketUnlockWithFee takes gross from
\* locked and adds net to available; 1_000_000 at 50 bps gives fee 5_000
\* and net 995_000.
C14_FeeNet ==
    /\ [][(last'.op = "PredictionMarketLockWithFee" /\ last'.res = "Ok") =>
            LET gross == last'.arg.amount
                net == gross - FloorFee(gross, pmFeeConfig.minting_fee_bps)
            IN
            /\ users'[1].available_balance_e6 = users[1].available_balance_e6 - gross
            /\ pmUsers'[1].prediction_market_locked_e6 =
                  pmUsers[1].prediction_market_locked_e6 + net]_vars
    /\ [][(last'.op = "PredictionMarketUnlockWithFee" /\ last'.res = "Ok") =>
            LET gross == last'.arg.amount
                net == gross - FloorFee(gross, pmFeeConfig.redemption_fee_bps)
            IN
            /\ pmUsers'[1].prediction_market_locked_e6 =
                  pmUsers[1].prediction_market_locked_e6 - gross
            /\ users'[1].available_balance_e6 = users[1].available_balance_e6 + net]_vars
    /\ FloorFee(1000000, 50) = 5000 /\ fee_amount(1000000, 50) = 5000

\* C15: a successful fee-bearing operation on a positive amount whose
\* computed fee is positive moves exactly the fee from the vault holding to
\* the fee vault and raises a running total of the fee-policy record (the
\* minting total for a lock, the redemption total for an unlock, the
\* trading total for a trade) by the fee; with a fee of 0 the holdings and
\* the fee-policy record are as before.
C15_FeeRouting ==
    [][(last'.op \in {"PredictionMarketLockWithFee", "PredictionMarketUnlockWithFee",
                      "PredictionMarketTradeWithFee", "PredictionMarketSettleWithFee"}
          /\ last'.res = "Ok" /\ last'.arg.amount > 0) =>
        LET fc == pmFeeConfig
            bps == CASE last'.op = "PredictionMarketLockWithFee" -> fc.minting_fee_bps
                     [] last'.op = "PredictionMarketUnlockWithFee" -> fc.redemption_fee_bps
                     [] last'.op = "PredictionMarketSettleWithFee" -> fc.settlement_fee_bps
                     [] OTHER -> IF last'.arg.is_taker THEN fc.trading_fee_taker_bps
                                 ELSE fc.trading_fee_maker_bps
            total == CASE last'.op = "PredictionMarketLockWithFee" -> {"total_minting_fee"}
                       [] last'.op = "PredictionMarketUnlockWithFee" -> {"total_redemption_fee"}
                       [] last'.op = "PredictionMarketTradeWithFee" -> {"total_trading_fee"}
                       [] OTHER -> {"total_minting_fee", "total_redemption_fee",
                                    "total_trading_fee"}
            fee == fee_amount(last'.arg.amount, bps)
        IN
        IF fee > 0
        THEN /\ tokens' = [tokens EXCEPT !.vault = @ - fee, !.fee_vault = @ + fee]
             /\ \E f \in total : pmFeeConfig' = [fc EXCEPT ![f] = @ + fee]
        ELSE tokens' = tokens /\ pmFeeConfig' = fc]_vars

\* C16: applied to a wallet whose PredictionMarketUserAccount does not
\* exist, with the fee accounts in order, PredictionMarketLockWithFee and
\* PredictionMarketSettleWithFee leave a record exactly when
\* PredictionMarketLock and PredictionMarketSettle, given the same arguments
\* and the accounts for provisioning, do.
C16_AutoProvision ==
    [][(~pmUsers[1].init /\ last'.arg.accounts_ok) =>
        /\ last'.op = "PredictionMarketLockWithFee" =>
              pmUsers'[1].init =
                 process_prediction_market_lock(config, users[1], pmUsers[1], last'.writable,
                     last'.caller, last'.arg.payer_ok, TRUE, last'.arg.amount).pm.init
        /\ last'.op = "PredictionMarketSettleWithFee" =>
              pmUsers'[1].init =
                 process_prediction_market_settle(config, pmUsers[1], last'.writable,
                     last'.caller, TRUE, TRUE, last'.arg.locked_amount,
                     last'.arg.amount).pm.init]_vars

-----------------------------------------------------------------------------
(* Specification of settlement and claim: the ledger program locks and     *)
(* settles funds of wallet 1, which claims its pending settlement into its *)
(* own UserAccount or into the one of wallet 2.                            *)

NextPMSettle ==
    \/ PredictionMarketLock(InitLedgerProgram, 1, TRUE, TRUE, Big)
    \/ \E payer_ok \in BOOLEAN, locked_amount \in {Half, Neg(Half)},
          settlement_amount \in {Half, Big, Neg(Half)} :
          PredictionMarketSettle(InitLedgerProgram, 1, TRUE, payer_ok, locked_amount,
                                 settlement_amount)
    \/ \E is_signer \in BOOLEAN, uw \in Wallets :
          PredictionMarketClaimSettlement(1, <<is_signer, TRUE>>, uw, 1)

SpecPMSettle == InitPM /\ [][NextPMSettle]_vars

-----------------------------------------------------------------------------
\* C21: PredictionMarketSettle(locked_to_release, settlement_amount)
\* succeeds only if the sub-ledger's locked is at least locked_to_release;
\* on success locked decreases by locked_to_release, pending_settlement
\* increases by settlement_amount and realized P&L increases by
\* settlement_amount - locked_to_release; on failure nothing changes.
C21_Settle ==
    [][last'.op = "PredictionMarketSettle" =>
          LET pm == pmUsers[last'.arg.wallet]
              pm2 == pmUsers'[last'.arg.wallet]
              l == last'.arg.locked_amount
              s == last'.arg.settlement_amount
          IN /\ last'.res = "Ok" =>
                  /\ pm.prediction_market_locked_e6 >= l
                  /\ pm2.prediction_market_locked_e6 = pm.prediction_market_locked_e6 - l
                  /\ pm2.prediction_market_pending_settlement_e6
                        = pm.prediction_market_pending_settlement_e6 + s
                  /\ pm2.prediction_market_realized_pnl_e6
                        = pm.prediction_market_realized_pnl_e6 + s - l
             /\ last'.res # "Ok" => pmUsers' = pmUsers /\ users' = users]_vars

\* C22: PredictionMarketClaimSettlement sets pending_settlement to 0 and
\* raises UserAccount.available by exactly the previous pending amount in
\* the same operation; pending_settlement is never changed by a claim
\* without that amount having been credited to available.
C22_Claim ==
    [][last'.op = "PredictionMarketClaimSettlement" =>
          LET pm == pmUsers[last'.arg.pm_wallet]
              pm2 == pmUsers'[last'.arg.pm_wallet]
              ua == users[last'.arg.wallet]
              ua2 == users'[last'.arg.wallet]
              credited == ua2.available_balance_e6
                            = ua.available_balance_e6
                              + pm.prediction_market_pending_settlement_e6
          IN /\ last'.res = "Ok" =>
                  pm2.prediction_market_pending_settlement_e6 = 0 /\ credited
             /\ pm2.prediction_market_pending_settlement_e6
                   # pm.prediction_market_pending_settlement_e6 => credited]_vars

-----------------------------------------------------------------------------
(* Specification of the spot slot table: wallet 1 holds instruments 1..n   *)
(* with n one below or at MAX_TOKEN_SLOTS, wallet 2 holds instruments 0    *)
(* and 1; the admin deposits, withdraws and settles pairs, the ledger      *)
(* program locks, unlocks and settles, on instruments inside and outside   *)
(* the table.                                                              *)

InitSlots ==
    /\ config = process_initialize(InitAdmin, InitLedgerProgram, InitFundProgram)
    /\ users = [w \in Wallets |-> NoUser]
    /\ pmUsers = [w \in Wallets |-> NoPMUser]
    /\ pmFeeConfig = NoFeeConfig
    /\ \E n \in {MAX_TOKEN_SLOTS - 1, MAX_TOKEN_SLOTS} :
          spotUsers = [w \in Wallets |->
              IF w = 1
              THEN [SpotUserAccount_new EXCEPT !.token_balances =
                        [i \in 1..n |-> [token_index |-> i, available_e6 |-> Half,
                                         locked_e6 |-> Half]]]
              ELSE SpotFunded(Big, Half)]
    /\ recurringAuth = NoAuth
    /\ tokens = NoTokens
    /\ overflow_checks = FALSE
    /\ last = NoLabel

NextSlots ==
    \/ \E m \in {<<TRUE, TRUE>>, <<FALSE, TRUE>>},
          token_index \in {1, MAX_TOKEN_SLOTS + 1} :
          RelayerSpotDeposit(InitAdmin, m, 1, TRUE, token_index, Big)
    \/ \E token_index \in {1, MAX_TOKEN_SLOTS + 1} :
          RelayerSpotWithdraw(InitAdmin, <<TRUE, TRUE>>, 1, TRUE, token_index, Big)
    \/ SpotLockBalance(InitLedgerProgram, 1, MAX_TOKEN_SLOTS + 1, Big)
    \/ SpotUnlockBalance(InitLedgerProgram, 1, MAX_TOKEN_SLOTS + 1, Big)
    \/ \E quote_token_index \in {2, MAX_TOKEN_SLOTS + 1}, sequence \in 1..MaxSeq :
          SpotSettleTrade(InitLedgerProgram, 1, FALSE, 1, quote_token_index, Half, Half,
                          sequence)
    \/ \E taker_is_buy \in BOOLEAN, sequence \in 1..MaxSeq :
          RelayerSpotSettleTrade(InitAdmin, <<TRUE, TRUE>>, 2, 1, TRUE, Half, Half, 0, 0,
                                 taker_is_buy, sequence)

SpecSlots == InitSlots /\ [][NextSlots]_vars

\* the instruments that have a slot in the account
Assigned(acc) == {acc.token_balances[i].token_index : i \in 1..Len(acc.token_balances)}

\* the instruments an invocation credits to the account of wallet w, and
\* the one it only debits or moves inside the account
Credited(l, w) ==
    IF l.op = "RelayerSpotDeposit" /\ l.arg.wallet = w THEN {l.arg.token_index}
    ELSE IF l.op = "SpotSettleTrade" /\ l.arg.wallet = w
    THEN {IF l.arg.is_buy THEN l.arg.base ELSE l.arg.quote}
    ELSE IF l.op = "RelayerSpotSettleTrade" /\ l.arg.maker = w
    THEN {IF l.arg.taker_is_buy THEN 0 ELSE 1}
    ELSE IF l.op = "RelayerSpotSettleTrade" /\ l.arg.taker = w
    THEN {IF l.arg.taker_is_buy THEN 1 ELSE 0}
    ELSE {}

-----------------------------------------------------------------------------
(* Specification of the whitelist at capacity: the administrative          *)
(* instructions on a VaultConfig whose whitelist holds WHITELIST_SLOTS - 1 *)
(* or WHITELIST_SLOTS keys after as many AddAuthorizedCaller.              *)

InitWhitelist ==
    /\ \E n \in {WHITELIST_SLOTS - 1, WHITELIST_SLOTS} :
          config = [process_initialize(InitAdmin, InitLedgerProgram, InitFundProgram)
                       EXCEPT !.authorized_callers =
                                 [i \in Slots |-> IF i <= n THEN 10 + i ELSE DefaultKey]]
    /\ InitLedgers
    /\ overflow_checks = FALSE
    /\ last = NoLabel

SpecWhitelist == InitWhitelist /\ [][NextAdmin]_vars

\* the identities the whitelist holds
Listed(cfg) == {cfg.authorized_callers[i] : i \in Slots} \ {DefaultKey}

\* a whitelist edit that passes the signer, writable and admin tests
Edit(l, cfg, op) == l.op = op /\ l.signer /\ l.writable /\ l.caller = cfg.admin

\* C24 as stated: adding a listed identity and removing an unlisted one
\* succeed and leave VaultConfig unchanged; adding a new identity to a full
\* whitelist fails with InvalidAccount, VaultConfig unchanged; after a
\* successful Add(c) the identity c is authorized, after Remove(c) it is
\* not in the whitelist.
C24_Whitelist ==
    [][/\ Edit(last', config, "AddAuthorizedCaller") =>
            /\ last'.arg.key \in Listed(config) => last'.res = "Ok" /\ config' = config
            /\ last'.arg.key \notin Listed(config)
                  /\ Cardinality(Listed(config)) = WHITELIST_SLOTS =>
                  last'.res = "InvalidAccount" /\ config' = config
            /\ last'.res = "Ok" =>
                  /\ last'.arg.key \in Listed(config')
                  /\ is_authorized_caller(config', last'.arg.key)
       /\ Edit(last', config, "RemoveAuthorizedCaller") =>
            /\ last'.arg.key \notin Listed(config) => last'.res = "Ok" /\ config' = config
            /\ last'.res = "Ok" => last'.arg.key \notin Listed(config')]_vars

\* C24 amended: the same, where a successful Add(c) makes c authorized for
\* every c other than the all-zero key.
C24_WhitelistNonZero ==
    [][/\ Edit(last', config, "AddAuthorizedCaller") =>
            /\ last'.arg.key \in Listed(config) => last'.res = "Ok" /\ config' = config
            /\ last'.arg.key \notin Listed(config)
                  /\ Cardinality(Listed(config)) = WHITELIST_SLOTS =>
                  last'.res = "InvalidAccount" /\ config' = config
            /\ last'.res = "Ok" /\ last'.arg.key # DefaultKey =>
                  /\ last'.arg.key \in Listed(config')
                  /\ is_authorized_caller(config', last'.arg.key)
            /\ last'.res = "Ok" /\ last'.arg.key = DefaultKey => config' = config
       /\ Edit(last', config, "RemoveAuthorizedCaller") =>
            /\ last'.arg.key \notin Listed(config) => last'.res = "Ok" /\ config' = config
            /\ last'.res = "Ok" => last'.arg.key \notin Listed(config')]_vars

\* the admin has just been refused a new identity by a full whitelist
C24_Witness ==
    /\ last.op = "AddAuthorizedCaller" /\ last.signer /\ last.writable
    /\ last.caller = config.admin
    /\ last.res = "InvalidAccount"
    /\ last.arg.key = InitFundProgram
    /\ Cardinality(Listed(config)) = WHITELIST_SLOTS
    /\ InitFundProgram \notin Listed(config)

-----------------------------------------------------------------------------
-----------------------------------------------------------------------------
\* C26: RelayerDeposit and RelayerWithdraw, invoked by the signing admin on
\* an existing UserAccount, have the outcome of the self-service Deposit
\* and Withdraw of the same amount on the same records, paused or not: the
\* same result, the same UserAccount and the same running totals.
C26_RelayerSame ==
    [][last'.op \in {"RelayerDeposit", "RelayerWithdraw"} /\ last'.signer /\ last'.writable
          /\ last'.caller = config.admin /\ last'.arg.pda_ok
          /\ users[last'.arg.wallet].init =>
          \A paused \in BOOLEAN :
             LET cfg == [config EXCEPT !.is_paused = paused]
                 ua == users[last'.arg.wallet]
                 amount == last'.arg.amount
                 rel == IF last'.op = "RelayerDeposit"
                        THEN process_relayer_deposit(cfg, ua, last'.caller, TRUE, TRUE, TRUE,
                                                     amount)
                        ELSE process_relayer_withdraw(cfg, ua, last'.caller, TRUE, TRUE, TRUE,
                                                      amount)
                 self == IF last'.op = "RelayerDeposit"
                         THEN process_deposit(cfg, ua, [tokens EXCEPT !.user = amount],
                                              TRUE, TRUE, amount)
                         ELSE process_withdraw(cfg, ua, [tokens EXCEPT !.vault = amount],
                                               TRUE, TRUE, amount)
             IN /\ rel.res = self.res
                /\ rel.user = self.user
                /\ self.config = cfg
                /\ paused = config.is_paused =>
                      last'.res = rel.res /\ users'[last'.arg.wallet] = rel.user]_vars

-----------------------------------------------------------------------------
\* C27: the caller check of the gated instructions accepts the
\* ledger_config address derived from the configured ledger program, also
\* when that address is neither the ledger program, nor the fund program,
\* nor a whitelist entry: a gated instruction invoked by it is not turned
\* away by the caller check.
C27_ConfigPda ==
    [][last'.op \in GatedOps /\ last'.caller = ledger_config_pda(config.ledger_program) =>
          /\ verify_cpi_caller(config, last'.caller) = "Ok"
          /\ last'.res \notin {"UnauthorizedCaller", "InvalidCallerPda"}]_vars

-----------------------------------------------------------------------------
(* Specification of record creation: on a vault without any user record,   *)
(* wallets create their UserAccount, the ledger program settles into       *)
(* sub-ledger records that do not exist yet, and the admin registers the   *)
(* recurring authorization of wallet 1 towards wallet 2.                   *)

NextFresh ==
    \/ \E w \in Wallets, m \in Metas : InitializeUser(w, m)
    \/ \E w \in Wallets, payer_ok \in BOOLEAN, locked_amount \in {0, Half},
          settlement_amount \in {0, Big} :
          PredictionMarketSettle(InitLedgerProgram, w, TRUE, payer_ok, locked_amount,
                                 settlement_amount)
    \/ \E m \in {<<TRUE, TRUE>>, <<FALSE, TRUE>>}, amount \in {Half, Big},
          max_cycles \in {0, 3} :
          InitRecurringAuth(InitAdmin, m, amount, max_cycles, 0)

SpecFresh == InitAdmin0 /\ [][NextFresh]_vars

C29_NoPartial ==
    [][/\ last'.op \in {"LiquidatePosition", "PredictionMarketLock",
                        "PredictionMarketLockWithFee", "PredictionMarketClaimSettlement",
                        "SpotAllocateFromVault", "InitRecurringAuth"}
       /\ last'.res # "Ok"
       => UNCHANGED <<config, users, pmUsers, spotUsers, recurringAuth, tokens, pmFeeConfig>>]_vars

\* C30: ClosePositionSettle(margin_to_release, realized_pnl, fee) that has
\* passed the caller checks fails with InsufficientMargin if locked_margin
\* is below margin_to_release, and with InsufficientBalance if available
\* after the release, the dust sweep and the signed P&L is below fee; on
\* success available + locked_margin is its previous value plus
\* realized_pnl minus fee and available is not negative; on failure the
\* account is unchanged.  (An arithmetic overflow is accepted as a failure.)
C30_CloseSettle ==
    [][last'.op = "ClosePositionSettle" =>
        LET ua == users[last'.arg.wallet]
            ub == users'[last'.arg.wallet]
            margin_to_release == last'.arg.margin_to_release
            fee == last'.arg.fee
            after_pnl == ua.available_balance_e6 + margin_to_release + last'.arg.swept
                            + last'.arg.realized_pnl
            checked == last'.res \notin {"InvalidAccountData", "UnauthorizedCaller",
                                         "InvalidCallerPda", "BorshIoError", "Overflow"}
        IN /\ checked /\ ua.locked_margin_e6 < margin_to_release
                => last'.res = "InsufficientMargin"
           /\ checked /\ ua.locked_margin_e6 >= margin_to_release /\ after_pnl < fee
                => last'.res = "InsufficientBalance"
           /\ last'.res = "Ok" =>
                /\ ub.available_balance_e6 + ub.locked_margin_e6
                     = ua.available_balance_e6 + ua.locked_margin_e6
                          + last'.arg.realized_pnl - fee
                /\ ub.available_balance_e6 >= 0
           /\ last'.res # "Ok" => users' = users]_vars

\* C31: the locked amount of every prediction-market sub-ledger record is
\* never negative.
C31_LockedNonNegative ==
    \A w \in Wallets : pmUsers[w].prediction_market_locked_e6 >= 0

\* the balance entry of an instrument, zero when it has no slot
Bal(acc, token_index) ==
    LET slot == find_token_slot(acc, token_index) IN
    IF slot = 0 THEN [available_e6 |-> 0, locked_e6 |-> 0]
    ELSE [available_e6 |-> acc.token_balances[slot].available_e6,
          locked_e6 |-> acc.token_balances[slot].locked_e6]

\* one side of a V2 settlement of base instrument 1 against quote
\* instrument 0: the debit is covered by available + locked, taken from
\* available first and from locked for the shortfall only, and the credit
\* goes to available
SideV2(before, after, is_buy, base_amount, quote_amount, fee) ==
    LET pay    == IF is_buy THEN 0 ELSE 1
        get    == IF is_buy THEN 1 ELSE 0
        debit  == IF is_buy THEN quote_amount + fee ELSE base_amount
        credit == IF is_buy THEN base_amount ELSE quote_amount - fee
        b == Bal(before, pay)
    IN /\ b.available_e6 + b.locked_e6 >= debit
       /\ ~is_buy => fee <= quote_amount
       /\ Bal(after, pay) = IF b.available_e6 >= debit
                            THEN [b EXCEPT !.available_e6 = @ - debit]
                            ELSE [available_e6 |-> 0,
                                  locked_e6 |-> b.locked_e6 - (debit - b.available_e6)]
       /\ Bal(after, get) = [Bal(before, get) EXCEPT !.available_e6 = @ + credit]

\* C32: a successful RelayerSpotSettleTrade between two accounts settles
\* the taker in the given direction with the taker fee and the maker in the
\* opposite direction with the maker fee; each side pays its debit
\* (quote_amount + fee on a buy, base_amount on a sell) from available
\* first and from locked for the shortfall, receives base_amount or
\* quote_amount - fee into available, and is only accepted when
\* available + locked covers the debit and, on a sell, fee <= quote_amount.
C32_SettleV2 ==
    [][/\ last'.op = "RelayerSpotSettleTrade" /\ last'.res = "Ok"
       /\ last'.arg.maker # last'.arg.taker
       => /\ SideV2(spotUsers[last'.arg.taker], spotUsers'[last'.arg.taker],
                    last'.arg.taker_is_buy, last'.arg.base_amount,
                    last'.arg.quote_amount, last'.arg.taker_fee)
          /\ SideV2(spotUsers[last'.arg.maker], spotUsers'[last'.arg.maker],
                    ~last'.arg.taker_is_buy, last'.arg.base_amount,
                    last'.arg.quote_amount, last'.arg.maker_fee)]_vars

\* C33: a successful SpotSettleTrade takes the debit (quote_amount on a
\* buy, base_amount on a sell) from the locked balance of the debited
\* instrument, which covered it, leaves that instrument's available alone
\* and adds the other amount to the available balance of the other
\* instrument; a failed one leaves the account unchanged.
C33_SettleBasic ==
    [][last'.op = "SpotSettleTrade" =>
        LET before == spotUsers[last'.arg.wallet]
            after  == spotUsers'[last'.arg.wallet]
            is_buy == last'.arg.is_buy
            pay    == IF is_buy THEN last'.arg.quote ELSE last'.arg.base
            get    == IF is_buy THEN last'.arg.base ELSE last'.arg.quote
            debit  == IF is_buy THEN last'.arg.quote_amount ELSE last'.arg.base_amount
            credit == IF is_buy THEN last'.arg.base_amount ELSE last'.arg.quote_amount
        IN IF last'.res = "Ok"
           THEN /\ Bal(before, pay).locked_e6 >= debit
                /\ Bal(after, pay) = [Bal(before, pay) EXCEPT !.locked_e6 = @ - debit]
                /\ Bal(after, get) = [Bal(before, get) EXCEPT !.available_e6 = @ + credit]
           ELSE after = before]_vars

\* C34: every whitelist slot holds the zero key or an identity that no
\* other slot holds.
C34_NoDuplicates ==
    \A i \in Slots, j \in Slots :
        i # j /\ config.authorized_callers[i] = config.authorized_callers[j]
            => config.authorized_callers[i] = DefaultKey

\* the admin has just added an identity again and the whitelist holds it
\* in one slot only, next to empty slots
C34_Witness ==
    /\ last.op = "AddAuthorizedCaller" /\ last.res = "Ok"
    /\ last.signer /\ last.writable /\ last.caller = config.admin
    /\ last.arg.key # DefaultKey
    /\ Cardinality({i \in Slots : config.authorized_callers[i] = last.arg.key}) = 1
    /\ Cardinality({i \in Slots : config.authorized_callers[i] = DefaultKey}) >= 2

\* C35: the admin of VaultConfig is never the zero key.
C35_AdminSet == config.admin # DefaultKey

\* C36: available + locked margin of every UserAccount is never negative.
C36_TotalNonNegative ==
    \A w \in Wallets : users[w].available_balance_e6 + users[w].locked_margin_e6 >= 0

\* C37: for every amount of the unsigned 64-bit field a successful Withdraw
\* or RelayerWithdraw lowers the user's available by exactly amount, a
\* successful Deposit or RelayerDeposit does not lower it, and a successful
\* LockMargin does not lower locked margin.
C37_Direction ==
    [][last'.res = "Ok" =>
        LET before == users[last'.arg.wallet]
            after  == users'[last'.arg.wallet]
        IN /\ last'.op \in {"Withdraw", "RelayerWithdraw"} =>
                after.available_balance_e6 = before.available_balance_e6 - last'.arg.amount
           /\ last'.op \in {"Deposit", "RelayerDeposit"} =>
                after.available_balance_e6 >= before.available_balance_e6
           /\ last'.op = "LockMargin" =>
                after.locked_margin_e6 >= before.locked_margin_e6]_vars

\* C38: a RelayerSpotSettleTrade whose maker and taker are the same spot
\* account is never successful, and after a successful
\* RelayerSpotSettleTrade both accounts have the presented sequence as
\* watermark, which was above both previous watermarks.
C38_SameAccount ==
    [][last'.op = "RelayerSpotSettleTrade" =>
          /\ last'.arg.maker = last'.arg.taker => last'.res # "Ok"
          /\ last'.res = "Ok" =>
                \A w \in {last'.arg.maker, last'.arg.taker} :
                    /\ spotUsers'[w].last_settled_sequence = last'.arg.sequence
                    /\ last'.arg.sequence > spotUsers[w].last_settled_sequence]_vars

\* a trade of an account with itself has been turned away at the taker leg:
\* the admin's call passed the maker leg, which left the presented sequence
\* as the watermark
C38_Witness ==
    /\ last.op = "RelayerSpotSettleTrade" /\ last.res = "SettlementFailed"
    /\ last.signer /\ last.caller = config.admin
    /\ last.arg.maker = last.arg.taker
    /\ last.arg.taker_fee = 0
    /\ spotUsers[last.arg.maker].last_settled_sequence = last.arg.sequence

\* C39: current_cycles of the RecurringAuth never decreases, changes only
\* by a successful execution, which raises it by exactly one; with
\* max_cycles > 0 it never exceeds max_cycles and is below max_cycles
\* while the authorization is active.
C39_CycleCounter ==
    /\ [][/\ recurringAuth'.current_cycles >= recurringAuth.current_cycles
          /\ last'.op = "ExecuteRecurringPayment" /\ last'.res = "Ok" =>
                recurringAuth'.current_cycles = recurringAuth.current_cycles + 1
          /\ recurringAuth'.current_cycles # recurringAuth.current_cycles =>
                last'.op = "ExecuteRecurringPayment" /\ last'.res = "Ok"]_vars
    /\ [](recurringAuth.init /\ recurringAuth.max_cycles > 0 =>
            /\ recurringAuth.current_cycles <= recurringAuth.max_cycles
            /\ recurringAuth.is_active =>
                  recurringAuth.current_cycles < recurringAuth.max_cycles)

\* an authorization of three cycles has been cancelled after its second
\* execution and keeps its count
C39_Witness ==
    /\ last.op = "CancelRecurringAuth" /\ last.res = "Ok"
    /\ recurringAuth.init /\ recurringAuth.max_cycles = 3
    /\ recurringAuth.current_cycles = 2 /\ ~recurringAuth.is_active

====
